---- MODULE Spec2Model ----
(***************************************************************************)
(* ReconLens: the concurrent prober and the enrichment store.              *)
(*                                                                         *)
(* The module holds several specifications over one set of variables:      *)
(*   SpecProbe  the per-target probe functions (fetch_url, fetch_path,     *)
(*              probe_host, _probe_host) applied to enumerated network     *)
(*              outcomes;                                                  *)
(*   SpecStore  sequences of whole probe batches over the persisted        *)
(*              snapshot files and the audit logs;                         *)
(*   SpecBatch  one probe batch at task granularity (semaphores, task      *)
(*              completion, draining, commit);                             *)
(*   SpecWrite  writers and a reader of one snapshot file at file-system   *)
(*              step granularity;                                          *)
(*   SpecOrder  the results of one batch recorded in every completion      *)
(*              order, raw URLs and their canonical keys;                  *)
(*   SpecLock   start_probe calls and the _run_probe tasks they create,    *)
(*              with the task registry and the lock marker file;           *)
(*   SpecRules  the rule loaders and the classification runs applied to    *)
(*              enumerated rule documents, corpora and options;            *)
(*   SpecGen    generate_rules_from_samples applied to enumerated corpora  *)
(*              and model replies;                                         *)
(*   SpecFn     the scope filters, the URL canonicalizers and the rule     *)
(*              matchers, one call per behaviour;                          *)
(*   SpecMemo   the read-through cache of enrich_urls over the snapshot    *)
(*              files, with the dict objects its callers hold.             *)
(* A specification leaves the variables of the other groups unchanged.     *)
(***************************************************************************)
EXTENDS Integers, Sequences, FiniteSets, TLC

VARIABLES
    call,        \* SpecProbe: the last probe function call and its result
    files,       \* SpecStore: snapshot path -> content
    logs,        \* SpecStore: audit log path -> sequence of lines
    now,         \* SpecStore: wall clock, int(time.time())
    batches,     \* SpecStore: number of batches run so far
    raised,      \* SpecStore: exception the last batch ended with, or "none"
    kind,        \* SpecBatch: which runner this batch is
    concurrency, \* SpecBatch: configured global limit
    per_host,    \* SpecBatch: configured per-host limit (probe_paths)
    tpc,         \* SpecBatch: task -> position
    tout,        \* SpecBatch: task -> network outcome once its fetch returned
    sem_all,     \* SpecBatch: value of the global semaphore
    sem_host,    \* SpecBatch: host -> value of its semaphore
    rpc,         \* SpecBatch: position of the runner coroutine
    module_map,  \* SpecBatch: in-memory accumulation map, task -> record
    ndjson,      \* SpecBatch: audit lines appended by this batch
    persisted,   \* SpecBatch: the snapshot on disk after the commit
    disk,        \* SpecWrite: snapshot path -> content of the file
    tmpfile,     \* SpecWrite: snapshot path -> content of its .tmp sibling
    wpc,         \* SpecWrite: writer -> position
    wdata,       \* SpecWrite: writer -> version it is writing
    observed,    \* SpecWrite: what the reader's last read returned
    okind,       \* SpecOrder: which runner drains the results
    work,        \* SpecOrder: the input list of raw URLs, in submission order
    wout,        \* SpecOrder: index of work -> network outcome of that request
    undrained,   \* SpecOrder: indices whose result is not recorded yet
    omap,        \* SpecOrder: the module map accumulated so far
    osnap,       \* SpecOrder: the module snapshot file
    running_tasks, \* SpecLock: _running_tasks, scope -> registered task
    task_pc,     \* SpecLock: task -> position of its _run_probe coroutine
    task_scope,  \* SpecLock: task -> scope it was started for
    lock_file,   \* SpecLock: scope -> whether subdomains_probe.lock exists
    last_start,  \* SpecLock: the last start_probe call and what it found
    rcall,       \* SpecRules: the classification call made, inputs and output
    rerun,       \* SpecRules: the output of the same call made again
    gcall,       \* SpecGen: the generate_rules_from_samples call and result
    gen_file,    \* SpecGen: content of ai_rules.generated.json, if any
    fcall,       \* SpecFn: the function call made, its inputs and its result
    heap,        \* SpecMemo: dict object -> its content, <<>> while not created
    enrich_cache, \* SpecMemo: _ENRICH_CACHE, path -> the dict object cached
    enrich_mtime, \* SpecMemo: _ENRICH_MTIME, path -> modification time recorded
    mfiles,      \* SpecMemo: path -> content and modification time of the file
    held         \* SpecMemo: the dict objects callers hold a reference to

probeVars == <<call>>
storeVars == <<files, logs, now, batches, raised>>
batchVars == <<kind, concurrency, per_host, tpc, tout, sem_all, sem_host,
               rpc, module_map, ndjson, persisted>>
writeVars == <<disk, tmpfile, wpc, wdata, observed>>
orderVars == <<okind, work, wout, undrained, omap, osnap>>
lockVars == <<running_tasks, task_pc, task_scope, lock_file, last_start>>
rulesVars == <<rcall, rerun>>
genVars == <<gcall, gen_file>>
fnVars == <<fcall>>
memoVars == <<heap, enrich_cache, enrich_mtime, mfiles, held>>
vars == <<call, files, logs, now, batches, raised, kind, concurrency,
          per_host, tpc, tout, sem_all, sem_host, rpc, module_map, ndjson,
          persisted, disk, tmpfile, wpc, wdata, observed, okind, work, wout,
          undrained, omap, osnap, running_tasks, task_pc, task_scope,
          lock_file, last_start, rcall, rerun, gcall, gen_file, fcall,
          heap, enrich_cache, enrich_mtime, mfiles, held>>

exceptProbe == <<storeVars, batchVars, writeVars, orderVars, lockVars,
                rulesVars, genVars, fnVars, memoVars>>
exceptStore == <<probeVars, batchVars, writeVars, orderVars, lockVars,
                rulesVars, genVars, fnVars, memoVars>>
exceptBatch == <<probeVars, storeVars, writeVars, orderVars, lockVars,
                rulesVars, genVars, fnVars, memoVars>>
exceptWrite == <<probeVars, storeVars, batchVars, orderVars, lockVars,
                rulesVars, genVars, fnVars, memoVars>>
exceptOrder == <<probeVars, storeVars, batchVars, writeVars, lockVars,
                rulesVars, genVars, fnVars, memoVars>>
exceptLock == <<probeVars, storeVars, batchVars, writeVars, orderVars,
                rulesVars, genVars, fnVars, memoVars>>
exceptRules == <<probeVars, storeVars, batchVars, writeVars, orderVars,
                 lockVars, genVars, fnVars, memoVars>>
exceptGen == <<probeVars, storeVars, batchVars, writeVars, orderVars,
               lockVars, rulesVars, fnVars, memoVars>>
exceptFn == <<probeVars, storeVars, batchVars, writeVars, orderVars,
              lockVars, rulesVars, genVars, memoVars>>
exceptMemo == <<probeVars, storeVars, batchVars, writeVars, orderVars,
                lockVars, rulesVars, genVars, fnVars>>

(***************************************************************************)
(* Optional values (Python None / a value) and small helpers.              *)
(***************************************************************************)
None == <<>>
Some(v) == <<v>>
IsNone(o) == o = <<>>
Val(o) == o[1]
Max(a, b) == IF a >= b THEN a ELSE b
EmptyMap == [k \in {} |-> 0]

(***************************************************************************)
(* Network outcomes of one HTTP request: a response with a status code,    *)
(* or an exception.  "HTTPError" stands for the subclasses of              *)
(* httpx.HTTPError, "Other" for any other exception type.  str(e) may be   *)
(* the empty string.                                                       *)
(***************************************************************************)
Codes == {200, 404, 499, 500, 503, 999}
ErrMsgs == {"", "connection refused"}
Resp(c) == [t |-> "resp", code |-> c, cls |-> "", msg |-> ""]
Exc(cls, m) == [t |-> "exc", code |-> 0, cls |-> cls, msg |-> m]
Responses == {Resp(c) : c \in Codes}
Failures == {Exc(cls, m) : cls \in {"HTTPError", "Other"}, m \in ErrMsgs}
Outcomes == Responses \cup Failures

(***************************************************************************)
(* probe_urls.fetch_url.  outs[i] is the outcome of attempt i.  The record *)
(* is rebuilt at the start of every attempt; a response returns at once,   *)
(* any exception stores str(e) and goes to the next attempt; after the     *)
(* last attempt the last record is returned.  size, title and content_type *)
(* are assigned next to code from the same response and are carried by     *)
(* code here.                                                              *)
(***************************************************************************)
Modes == {"GET", "HEAD"}

UrlRec0(url, mode, t) ==
    [alive |-> FALSE, code |-> None, final_url |-> url, last_probe |-> t,
     mode |-> mode, error |-> None]

AliveUrlUpTo500(code) == code <= 500
AliveUrl(code) == code < 500

RECURSIVE FetchUrlFrom(_, _, _, _, _, _)
FetchUrlFrom(i, n, outs, url, mode, t) ==
    LET rec == UrlRec0(url, mode, t) IN
    IF outs[i].t = "resp"
    THEN [rec EXCEPT !.alive = AliveUrl(outs[i].code),
                     !.code = Some(outs[i].code)]
    ELSE IF i < n
         THEN FetchUrlFrom(i + 1, n, outs, url, mode, t)
         ELSE [rec EXCEPT !.error = Some(outs[i].msg)]

FetchUrl(outs, retries, url, mode, t) ==
    FetchUrlFrom(1, Max(1, retries + 1), outs, url, mode, t)

\* the requests fetch_url sends: one per pass of its loop, until a response
RECURSIVE FetchUrlRequests(_, _, _, _, _)
FetchUrlRequests(i, n, outs, url, mode) ==
    IF outs[i].t = "resp" \/ i >= n THEN << <<url, mode>> >>
    ELSE << <<url, mode>> >> \o FetchUrlRequests(i + 1, n, outs, url, mode)

(***************************************************************************)
(* probe_paths.fetch_path: one request, no retry loop.  Only               *)
(* httpx.HTTPError is caught; any other exception leaves the function.     *)
(* sha1 stands for the fields only a response adds (sha1, snippet,         *)
(* redirects, latency_ms).                                                 *)
(***************************************************************************)
PathRec0(url, method, t) ==
    [alive |-> FALSE, code |-> None, final_url |-> url, ts |-> t,
     last_probe |-> t, mode |-> method, error |-> None,
     sources |-> {"probe_paths"}]

AlivePath(code) == TRUE

PathResponseRec(rec, code) ==
    [f \in DOMAIN rec \cup {"sha1"} |->
        CASE f = "alive" -> AlivePath(code)
          [] f = "code" -> Some(code)
          [] f = "sha1" -> "sha1"
          [] OTHER -> rec[f]]

FetchPathCatches(o) == o.cls = "HTTPError"

FetchPath(o, url, method, t) ==
    LET rec == PathRec0(url, method, t) IN
    IF o.t = "resp"
    THEN [raised |-> FALSE, rec |-> PathResponseRec(rec, o.code)]
    ELSE IF FetchPathCatches(o)
         THEN [raised |-> FALSE,
               rec |-> [rec EXCEPT !.error = Some(o.msg), !.alive = FALSE]]
         ELSE [raised |-> TRUE, rec |-> rec]

(***************************************************************************)
(* probe_subdomains.head_or_get and probe_host.  net maps <<scheme,        *)
(* method>> to the outcome of that request.                                *)
(***************************************************************************)
Schemes == {"https", "http"}

HeadOrGet(net, scheme, if_head_then_get) ==
    LET h == net[<<scheme, "HEAD">>]
        g == net[<<scheme, "GET">>] IN
    IF h.t = "resp"
    THEN [code |-> Some(h.code), mode |-> "HEAD", err |-> None,
          reqs |-> << <<scheme, "HEAD">> >>]
    ELSE IF ~if_head_then_get
         THEN [code |-> None, mode |-> "HEAD", err |-> Some(h.msg),
               reqs |-> << <<scheme, "HEAD">> >>]
         ELSE IF g.t = "resp"
              THEN [code |-> Some(g.code), mode |-> "GET", err |-> None,
                    reqs |-> << <<scheme, "HEAD">>, <<scheme, "GET">> >>]
              ELSE [code |-> None, mode |-> "GET", err |-> Some(g.msg),
                    reqs |-> << <<scheme, "HEAD">>, <<scheme, "GET">> >>]

AliveHost(code) == code < 500

SchemeOrderHttpFirst(prefer_https) == <<"http", "https">>
SchemeOrder(prefer_https) ==
    IF prefer_https THEN <<"https", "http">> ELSE <<"http", "https">>

HostResult(host, scheme, r, ips) ==
    IF ~IsNone(r.code)
    THEN [host |-> host, scheme |-> Some(scheme),
          alive |-> AliveHost(Val(r.code)), code |-> r.code,
          error |-> None, ips |-> ips]
    ELSE [host |-> host, scheme |-> Some(scheme), alive |-> FALSE,
          code |-> None, error |-> r.err, ips |-> ips]

\* the GET of fetch_title_if_html, sent after a GET gave a code with an
\* HTML content type; its failure is suppressed
TitleRequests(r, scheme, html) ==
    IF ~IsNone(r.code) /\ r.mode = "GET" /\ html
    THEN << <<scheme, "GET">> >> ELSE <<>>

ProbeHostRequests(net, prefer_https, if_head_then_get, html) ==
    LET order == SchemeOrder(prefer_https)
        r1 == HeadOrGet(net, order[1], if_head_then_get)
        r2 == HeadOrGet(net, order[2], if_head_then_get) IN
    IF ~IsNone(r1.code)
    THEN r1.reqs \o TitleRequests(r1, order[1], html)
    ELSE r1.reqs \o r2.reqs \o TitleRequests(r2, order[2], html)

ProbeHost(net, host, prefer_https, if_head_then_get, ips) ==
    LET order == SchemeOrder(prefer_https)
        r1 == HeadOrGet(net, order[1], if_head_then_get)
        r2 == HeadOrGet(net, order[2], if_head_then_get) IN
    IF ~IsNone(r1.code)
    THEN [rec |-> HostResult(host, order[1], r1, ips), reqs |-> r1.reqs]
    ELSE [rec |-> HostResult(host, order[2], r2, ips),
          reqs |-> r1.reqs \o r2.reqs]

(***************************************************************************)
(* enrich_subdomains._fetch_title and _probe_host: GET on https, then on   *)
(* http; every exception of a request is swallowed into "no code".         *)
(***************************************************************************)
SvcAlive(code) == 200 <= code /\ code < 600

SvcFetchTitle(net, scheme) ==
    LET g == net[<<scheme, "GET">>] IN
    IF g.t = "resp" THEN Some(g.code) ELSE None

SvcProbeHost(net, host, t) ==
    LET c1 == SvcFetchTitle(net, "https")
        c2 == SvcFetchTitle(net, "http") IN
    IF ~IsNone(c1)
    THEN [host |-> host, scheme |-> Some("https"), code |-> c1,
          alive |-> SvcAlive(Val(c1)), checked_at |-> t]
    ELSE IF ~IsNone(c2)
         THEN [host |-> host, scheme |-> Some("http"), code |-> c2,
               alive |-> SvcAlive(Val(c2)), checked_at |-> t]
         ELSE [host |-> host, scheme |-> None, code |-> None,
               alive |-> FALSE, checked_at |-> t]

(***************************************************************************)
(* SpecProbe: the probe functions applied to enumerated inputs.            *)
(***************************************************************************)
MaxRetries == 1
Keys == {"k1", "k2"}
Hosts == {"h1", "h2"}
HostOutcomes == Responses \cup {Exc("HTTPError", ""), Exc("Other", "boom")}
Nets == [Schemes \X Modes -> HostOutcomes]

NoCall == [fn |-> "none", in |-> EmptyMap, raised |-> FALSE,
           rec |-> EmptyMap, reqs |-> <<>>]

CallFetchUrl ==
    /\ call.fn = "none"
    /\ UNCHANGED exceptProbe
    /\ \E retries \in 0..MaxRetries, mode \in Modes, url \in Keys :
      \E outs \in [1..Max(1, retries + 1) -> Outcomes] :
        call' = [fn |-> "fetch_url",
                 in |-> [retries |-> retries, outs |-> outs],
                 raised |-> FALSE,
                 rec |-> FetchUrl(outs, retries, url, mode, now),
                 reqs |-> FetchUrlRequests(1, Max(1, retries + 1), outs,
                                           url, mode)]

\* the one call of fetch_path that do_one of probe_paths._runner makes for
\* a work item; _runner takes retries and hands it to nothing
CallFetchPath ==
    /\ call.fn = "none"
    /\ UNCHANGED exceptProbe
    /\ \E retries \in 0..MaxRetries, method \in Modes, url \in Keys :
      \E outs \in [1..Max(1, retries + 1) -> Outcomes] :
      LET r == FetchPath(outs[1], url, method, now) IN
        call' = [fn |-> "fetch_path",
                 in |-> [retries |-> retries, outs |-> outs],
                 raised |-> r.raised,
                 rec |-> IF r.raised THEN EmptyMap ELSE r.rec,
                 reqs |-> << <<url, method>> >>]

CallProbeHost ==
    /\ call.fn = "none"
    /\ UNCHANGED exceptProbe
    /\ \E net \in Nets, prefer_https \in BOOLEAN, if_head_then_get \in BOOLEAN,
       host \in Hosts, html \in BOOLEAN :
      LET r == ProbeHost(net, host, prefer_https, if_head_then_get, {}) IN
        call' = [fn |-> "probe_host",
                 in |-> [net |-> net, prefer_https |-> prefer_https,
                         if_head_then_get |-> if_head_then_get,
                         html |-> html],
                 raised |-> FALSE, rec |-> r.rec,
                 reqs |-> ProbeHostRequests(net, prefer_https,
                                            if_head_then_get, html)]

CallSvcProbeHost ==
    /\ call.fn = "none"
    /\ UNCHANGED exceptProbe
    /\ \E net \in Nets, host \in Hosts :
        call' = [fn |-> "_probe_host", in |-> [net |-> net],
                 raised |-> FALSE,
                 rec |-> SvcProbeHost(net, host, now), reqs |-> <<>>]

(***************************************************************************)
(* The enrichment store: snapshot files and audit logs.                    *)
(* A snapshot file is missing, holds text that is not JSON, or holds a     *)
(* JSON object (a map from canonical key to record).                       *)
(***************************************************************************)
Sources == {"docs", "sens"}
SnapPaths == {"url_enrich", "docs_enrich", "sens_enrich",
              "probe_paths_enrich", "subdomains_enrich", "host_index"}
LogPaths == {"url_probe", "probe_paths", "subdomains_probe", "probes_host"}

Missing == [st |-> "missing", map |-> EmptyMap]
Corrupt == [st |-> "corrupt", map |-> EmptyMap]
Ok(m) == [st |-> "ok", map |-> m]

ModuleEnrichPath(source) ==
    CASE source = "docs" -> "docs_enrich"
      [] source = "sens" -> "sens_enrich"
      [] source = "probe_paths" -> "probe_paths_enrich"

\* dict.update / {**a, **b}
MapUpdate(base, m) ==
    [k \in DOMAIN base \cup DOMAIN m |->
        IF k \in DOMAIN m THEN m[k] ELSE base[k]]

\* d[f] = v
Put(d, f, v) == [x \in DOMAIN d \cup {f} |-> IF x = f THEN v ELSE d[x]]

\* enrich_urls._read_json_memo in a fresh process: {} for a missing file
\* and for text that does not parse.
EnrichReadJsonMemo(f) == IF f.st = "ok" THEN f.map ELSE EmptyMap

\* probe_paths._read_json_memo: {} only for a missing file; json.loads is
\* not guarded.
PathsReadJsonMemo(f) ==
    [raised |-> f.st = "corrupt",
     map |-> IF f.st = "ok" THEN f.map ELSE EmptyMap]

\* probe_subdomains.read_json(path, {}): the default only for a missing
\* file; json.load is not guarded.
ReadJson(f) ==
    [raised |-> f.st = "corrupt",
     map |-> IF f.st = "ok" THEN f.map ELSE EmptyMap]

\* save_enrich_map_atomic / write_json_atomic, as one step
SaveEnrichMapAtomic(fs, path, data) == [fs EXCEPT ![path] = Ok(data)]

MergeIntoUrlEnrich(fs, mm) ==
    LET base == IF fs["url_enrich"].st # "missing"
                THEN EnrichReadJsonMemo(fs["url_enrich"])
                ELSE EmptyMap IN
    SaveEnrichMapAtomic(fs, "url_enrich", MapUpdate(base, mm))

(***************************************************************************)
(* probe_urls._runner, the drain loop: for each completed (url, rec) in    *)
(* completion order, append the audit line, then stamp sources and         *)
(* first_seen on the fresh record and store it in the fresh module map.    *)
(***************************************************************************)
UrlSources(rec, source) ==
    (IF "sources" \in DOMAIN rec THEN rec.sources ELSE {}) \cup {source}

UrlFirstSeen(rec, t) ==
    IF "first_seen" \in DOMAIN rec THEN rec.first_seen ELSE t

UrlStamp(rec, source, t) ==
    Put(Put(rec, "sources", UrlSources(rec, source)),
        "first_seen", UrlFirstSeen(rec, t))

AuditLine(key, rec) == [url |-> key, code |-> rec.code, error |-> rec.error]

RECURSIVE UrlsDrain(_, _, _, _, _, _)
UrlsDrain(i, targets, outs, source, t, acc) ==
    IF i > Len(targets) THEN acc
    ELSE LET cu == targets[i]
             rec == FetchUrl(<<outs[cu]>>, 0, cu, "GET", t) IN
         UrlsDrain(i + 1, targets, outs, source, t,
                   [mm |-> Put(acc.mm, cu, UrlStamp(rec, source, t)),
                    lines |-> Append(acc.lines, AuditLine(cu, rec))])

(***************************************************************************)
(* probe_paths._runner: the module map starts from the prior module        *)
(* snapshot; do_one carries first_seen over from the prior record of the   *)
(* key.  An exception leaving fetch_path leaves do_one and the gather;     *)
(* the results completed before it are in the audit log only.              *)
(***************************************************************************)
PathsFirstSeen(mm, key, first_seen_default) ==
    IF key \in DOMAIN mm /\ "first_seen" \in DOMAIN mm[key]
    THEN mm[key].first_seen
    ELSE first_seen_default

RECURSIVE PathsDrain(_, _, _, _, _)
PathsDrain(i, targets, outs, t, acc) ==
    IF i > Len(targets) \/ acc.raised THEN acc
    ELSE LET key == targets[i]
             r == FetchPath(outs[key], key, "GET", t) IN
         IF r.raised
         THEN [acc EXCEPT !.raised = TRUE]
         ELSE LET rec == Put(r.rec, "first_seen",
                             PathsFirstSeen(acc.mm, key, t)) IN
              PathsDrain(i + 1, targets, outs, t,
                         [mm |-> Put(acc.mm, key, rec),
                          lines |-> Append(acc.lines, AuditLine(key, rec)),
                          raised |-> FALSE])

(***************************************************************************)
(* probe_subdomains._runner: both prior snapshots are read with read_json; *)
(* each result is appended to both timelines and merged into host_index    *)
(* and the host enrich map; the two maps are written at the end.           *)
(***************************************************************************)
MergeEnrichMap(old, rec, t) ==
    LET prev == IF rec.host \in DOMAIN old THEN old[rec.host] ELSE EmptyMap
        upd == [scheme |-> rec.scheme, alive |-> rec.alive,
                code |-> rec.code, ts |-> t, last_probe |-> t] IN
    Put(old, rec.host, MapUpdate(prev, upd))

MergeHostIndex(old, rec, t) ==
    LET item == IF rec.host \in DOMAIN old THEN old[rec.host] ELSE EmptyMap
        first_seen == IF "first_seen" \in DOMAIN item
                      THEN item.first_seen ELSE t
        ip_hist == IF "ip_hist" \in DOMAIN item THEN item.ip_hist ELSE {} IN
    Put(old, rec.host,
        [first_seen |-> first_seen, last_seen |-> t, last_probe |-> t,
         last_status |-> [alive |-> rec.alive, code |-> rec.code,
                          scheme |-> rec.scheme],
         ip_now |-> rec.ips, ip_hist |-> ip_hist \cup rec.ips])

HostLine(rec) == [url |-> rec.host, code |-> rec.code, error |-> rec.error]

RECURSIVE HostsDrain(_, _, _, _, _, _)
HostsDrain(i, hosts, outs, ips, t, acc) ==
    IF i > Len(hosts) THEN acc
    ELSE LET h == hosts[i]
             net == [rq \in Schemes \X Modes |-> outs[h]]
             rec == ProbeHost(net, h, TRUE, TRUE, ips).rec IN
         HostsDrain(i + 1, hosts, outs, ips, t,
                    [enrich |-> MergeEnrichMap(acc.enrich, rec, t),
                     index |-> MergeHostIndex(acc.index, rec, t),
                     lines |-> Append(acc.lines, HostLine(rec))])

(***************************************************************************)
(* enrich_subdomains._run_probe: the NDJSON file is unlinked before the    *)
(* workers start; each worker appends its record.                          *)
(***************************************************************************)
SvcLine(rec) == [url |-> rec.host, code |-> rec.code, error |-> None]

RECURSIVE SvcDrain(_, _, _, _, _)
SvcDrain(i, hosts, outs, t, lines) ==
    IF i > Len(hosts) THEN lines
    ELSE LET h == hosts[i]
             net == [rq \in Schemes \X Modes |-> outs[h]] IN
         SvcDrain(i + 1, hosts, outs, t,
                  Append(lines, SvcLine(SvcProbeHost(net, h, t))))

RunProbeResetLog(lines) == <<>>

(***************************************************************************)
(* SpecStore: whole batches, one after another.                            *)
(***************************************************************************)
MaxBatches == 2
MaxTime == 2

StoreOutcomes == {Resp(200), Exc("HTTPError", ""), Exc("Other", "boom")}
IpSets == {{"10.0.0.1"}}

Range(s) == {s[i] : i \in 1..Len(s)}
TargetSeqs(S) ==
    {s \in UNION {[1..n -> S] : n \in 1..Cardinality(S)} :
        \A i, j \in 1..Len(s) : i # j => s[i] # s[j]}

CorruptiblePaths == {"url_enrich", "probe_paths_enrich", "subdomains_enrich"}

StoreInit ==
    /\ \E bad \in CorruptiblePaths \cup {"none"} :
         files = [p \in SnapPaths |-> IF p = bad THEN Corrupt ELSE Missing]
    /\ logs = [p \in LogPaths |-> <<>>]
    /\ now = 1
    /\ batches = 0
    /\ raised = "none"

Tick ==
    /\ now < MaxTime
    /\ now' = now + 1
    /\ UNCHANGED <<files, logs, batches, raised>>
    /\ UNCHANGED exceptStore

ProbeUrlsBatch ==
    /\ batches < MaxBatches
    /\ \E source \in Sources, targets \in TargetSeqs(Keys) :
       \E outs \in [Range(targets) -> StoreOutcomes] :
         LET r == UrlsDrain(1, targets, outs, source, now,
                            [mm |-> EmptyMap, lines |-> <<>>])
             saved == SaveEnrichMapAtomic(files, ModuleEnrichPath(source),
                                          r.mm) IN
           /\ files' = MergeIntoUrlEnrich(saved, r.mm)
           /\ logs' = [logs EXCEPT !["url_probe"] = @ \o r.lines]
           /\ raised' = "none"
    /\ batches' = batches + 1
    /\ UNCHANGED now
    /\ UNCHANGED exceptStore

ProbePathsBatch ==
    /\ batches < MaxBatches
    /\ LET prior == PathsReadJsonMemo(files["probe_paths_enrich"]) IN
       IF prior.raised
       THEN /\ raised' = "JSONDecodeError"
            /\ UNCHANGED <<files, logs>>
       ELSE \E targets \in TargetSeqs(Keys) :
            \E outs \in [Range(targets) -> StoreOutcomes] :
              LET r == PathsDrain(1, targets, outs, now,
                                  [mm |-> prior.map, lines |-> <<>>,
                                   raised |-> FALSE])
                  saved == SaveEnrichMapAtomic(files, "probe_paths_enrich",
                                               r.mm) IN
                /\ logs' = [logs EXCEPT !["probe_paths"] = @ \o r.lines]
                /\ IF r.raised
                   THEN /\ raised' = "Exception"
                        /\ UNCHANGED files
                   ELSE /\ raised' = "none"
                        /\ files' = MergeIntoUrlEnrich(saved, r.mm)
    /\ batches' = batches + 1
    /\ UNCHANGED now
    /\ UNCHANGED exceptStore

ProbeSubdomainsBatch ==
    /\ batches < MaxBatches
    /\ LET e == ReadJson(files["subdomains_enrich"])
           x == ReadJson(files["host_index"]) IN
       IF e.raised \/ x.raised
       THEN /\ raised' = "JSONDecodeError"
            /\ UNCHANGED <<files, logs>>
       ELSE \E hosts \in TargetSeqs(Hosts), ips \in IpSets :
            \E outs \in [Range(hosts) -> StoreOutcomes] :
              LET r == HostsDrain(1, hosts, outs, ips, now,
                                  [enrich |-> e.map, index |-> x.map,
                                   lines |-> <<>>]) IN
                /\ files' = SaveEnrichMapAtomic(
                               SaveEnrichMapAtomic(files, "host_index",
                                                   r.index),
                               "subdomains_enrich", r.enrich)
                /\ logs' = [logs EXCEPT
                              !["subdomains_probe"] = @ \o r.lines,
                              !["probes_host"] = @ \o r.lines]
                /\ raised' = "none"
    /\ batches' = batches + 1
    /\ UNCHANGED now
    /\ UNCHANGED exceptStore

RunProbeBatch ==
    /\ batches < MaxBatches
    /\ \E hosts \in TargetSeqs(Hosts) :
       \E outs \in [Range(hosts) -> StoreOutcomes] :
         logs' = [logs EXCEPT !["subdomains_probe"] =
                    SvcDrain(1, hosts, outs, now, RunProbeResetLog(@))]
    /\ raised' = "none"
    /\ batches' = batches + 1
    /\ UNCHANGED <<files, now>>
    /\ UNCHANGED exceptStore

(***************************************************************************)
(* SpecBatch: one probe batch, task by task.                               *)
(*   probe_urls._runner        worker: async with sem: fetch_url; the      *)
(*                             runner drains as_completed, then saves      *)
(*   probe_subdomains._runner  one: async with sem: probe_host; the runner *)
(*                             drains as_completed, then writes            *)
(*   probe_paths._runner       wrap_do_one: async with sem_all: do_one:    *)
(*                             async with sem_host: fetch_path; do_one     *)
(*                             records; gather; then save                  *)
(*   enrich_subdomains._run_probe  worker: async with sem: _probe_host and *)
(*                             append; gather                              *)
(* A task that finds its semaphore free does not suspend, so acquiring is  *)
(* one step with whatever follows up to the network await.                 *)
(***************************************************************************)
MaxConcurrency == 2
MaxPerHost == 2

Kinds == {"probe_urls", "probe_subdomains", "probe_paths", "run_probe"}
Tasks == {"t1", "t2", "t3"}
\* probe_paths: work is targets x pathspecs, so one host's items are adjacent
WorkHost == [t \in Tasks |-> IF t = "t3" THEN "h2" ELSE "h1"]
TaskKey == [t \in Tasks |->
              CASE t = "t1" -> "k1" [] t = "t2" -> "k2" [] t = "t3" -> "k3"]
BatchOutcomes == {Resp(200), Resp(503), Exc("HTTPError", ""),
                  Exc("HTTPError", "connection refused"),
                  Exc("Other", "boom")}
NoOutcome == Exc("none", "")

\* asyncio.Semaphore(max(1, concurrency)) in probe_urls;
\* asyncio.Semaphore(concurrency) in the other runners
SemLimitLikeHttpxLimits(k, c) == Max(4, c)
SemLimit(k, c) == IF k = "probe_urls" THEN Max(1, c) ELSE c

\* Semaphore.acquire proceeds only with a positive value
SemFree(v) == v > 0

Holders(S) == {t \in Tasks : tpc[t] \in S}
InFlight == Holders({"inflight"})

BatchInit ==
    /\ kind \in Kinds
    /\ concurrency \in 1..MaxConcurrency
    /\ per_host \in 1..MaxPerHost
    /\ tpc = [t \in Tasks |-> "created"]
    /\ tout = [t \in Tasks |-> NoOutcome]
    /\ sem_all = SemLimit(kind, concurrency)
    /\ sem_host = [h \in {WorkHost[t] : t \in Tasks} |-> per_host]
    /\ rpc = "running"
    /\ module_map = EmptyMap
    /\ ndjson = <<>>
    /\ persisted = Missing

\* async with sem / async with sem_all (and, in do_one, async with sem_host
\* when it is free)
AcquireAll(t) ==
    /\ rpc # "raised"
    /\ tpc[t] = "created"
    /\ SemFree(sem_all)
    /\ sem_all' = sem_all - 1
    /\ IF kind = "probe_paths"
       THEN IF SemFree(sem_host[WorkHost[t]])
            THEN /\ sem_host' = [sem_host EXCEPT ![WorkHost[t]] = @ - 1]
                 /\ tpc' = [tpc EXCEPT ![t] = "inflight"]
            ELSE /\ tpc' = [tpc EXCEPT ![t] = "wait_host"]
                 /\ UNCHANGED sem_host
       ELSE /\ tpc' = [tpc EXCEPT ![t] = "inflight"]
            /\ UNCHANGED sem_host
    /\ UNCHANGED <<kind, concurrency, per_host, tout, rpc, module_map,
                   ndjson, persisted>>
    /\ UNCHANGED exceptBatch

\* do_one resumed by a release of its host's semaphore
AcquireHost(t) ==
    /\ rpc # "raised"
    /\ kind = "probe_paths"
    /\ tpc[t] = "wait_host"
    /\ SemFree(sem_host[WorkHost[t]])
    /\ sem_host' = [sem_host EXCEPT ![WorkHost[t]] = @ - 1]
    /\ tpc' = [tpc EXCEPT ![t] = "inflight"]
    /\ UNCHANGED <<kind, concurrency, per_host, tout, sem_all, rpc,
                   module_map, ndjson, persisted>>
    /\ UNCHANGED exceptBatch

\* probe_urls.worker / probe_subdomains.one: the fetch returns its record
\* (every exception is caught inside), the semaphore is released and the
\* result waits for the runner.
CompleteToRunner(t) ==
    /\ rpc # "raised"
    /\ kind \in {"probe_urls", "probe_subdomains"}
    /\ tpc[t] = "inflight"
    /\ \E o \in BatchOutcomes : tout' = [tout EXCEPT ![t] = o]
    /\ sem_all' = sem_all + 1
    /\ tpc' = [tpc EXCEPT ![t] = "done"]
    /\ UNCHANGED <<kind, concurrency, per_host, sem_host, rpc, module_map,
                   ndjson, persisted>>
    /\ UNCHANGED exceptBatch

\* the runner's as_completed loop body for one result
Drain(t) ==
    /\ rpc = "running"
    /\ kind \in {"probe_urls", "probe_subdomains"}
    /\ tpc[t] = "done"
    /\ IF kind = "probe_urls"
       THEN LET rec == FetchUrl(<<tout[t]>>, 0, TaskKey[t], "GET", now) IN
            /\ ndjson' = Append(ndjson, AuditLine(TaskKey[t], rec))
            /\ module_map' = Put(module_map, TaskKey[t],
                                 UrlStamp(rec, "docs", now))
       ELSE LET net == [rq \in Schemes \X Modes |-> tout[t]]
                rec == ProbeHost(net, TaskKey[t], TRUE, TRUE, {}).rec IN
            /\ ndjson' = Append(ndjson, HostLine(rec))
            /\ module_map' = MergeEnrichMap(module_map, rec, now)
    /\ tpc' = [tpc EXCEPT ![t] = "recorded"]
    /\ UNCHANGED <<kind, concurrency, per_host, tout, sem_all, sem_host,
                   rpc, persisted>>
    /\ UNCHANGED exceptBatch

\* enrich_subdomains worker: _probe_host returns, the line is appended,
\* the semaphore is released
CompleteSvc(t) ==
    /\ rpc # "raised"
    /\ kind = "run_probe"
    /\ tpc[t] = "inflight"
    /\ \E o \in BatchOutcomes :
         LET net == [rq \in Schemes \X Modes |-> o] IN
         /\ tout' = [tout EXCEPT ![t] = o]
         /\ ndjson' = Append(ndjson, SvcLine(SvcProbeHost(net, TaskKey[t], now)))
    /\ sem_all' = sem_all + 1
    /\ tpc' = [tpc EXCEPT ![t] = "recorded"]
    /\ UNCHANGED <<kind, concurrency, per_host, sem_host, rpc, module_map,
                   persisted>>
    /\ UNCHANGED exceptBatch

\* probe_paths do_one after fetch_path: the host semaphore is released;
\* a record is stored and logged, an exception leaves do_one, wrap_do_one
\* (releasing sem_all) and reaches the gather.
CompletePath(t) ==
    /\ rpc # "raised"
    /\ kind = "probe_paths"
    /\ tpc[t] = "inflight"
    /\ sem_host' = [sem_host EXCEPT ![WorkHost[t]] = @ + 1]
    /\ sem_all' = sem_all + 1
    /\ \E o \in BatchOutcomes :
         LET r == FetchPath(o, TaskKey[t], "GET", now)
             rec == Put(r.rec, "first_seen",
                        PathsFirstSeen(module_map, TaskKey[t], now)) IN
         /\ tout' = [tout EXCEPT ![t] = o]
         /\ IF r.raised
            THEN /\ tpc' = [tpc EXCEPT ![t] = "failed"]
                 /\ rpc' = IF rpc = "running" THEN "raising" ELSE rpc
                 /\ UNCHANGED <<module_map, ndjson>>
            ELSE /\ tpc' = [tpc EXCEPT ![t] = "recorded"]
                 /\ module_map' = Put(module_map, TaskKey[t], rec)
                 /\ ndjson' = Append(ndjson, AuditLine(TaskKey[t], rec))
                 /\ UNCHANGED rpc
    /\ UNCHANGED <<kind, concurrency, per_host, persisted>>
    /\ UNCHANGED exceptBatch

\* the exception set on the gather reaches _runner, which leaves without
\* saving; asyncio.run cancels what is still pending
Abort ==
    /\ rpc = "raising"
    /\ rpc' = "raised"
    /\ tpc' = [t \in Tasks |->
                 IF tpc[t] \in {"recorded", "failed"} THEN tpc[t]
                 ELSE "cancelled"]
    /\ UNCHANGED <<kind, concurrency, per_host, tout, sem_all, sem_host,
                   module_map, ndjson, persisted>>
    /\ UNCHANGED exceptBatch

CommitWhileTasksPending ==
    /\ rpc = "running"
    /\ \E t \in Tasks : tpc[t] = "recorded"
    /\ rpc' = "committed"
    /\ persisted' = IF kind = "run_probe" THEN persisted ELSE Ok(module_map)
    /\ UNCHANGED <<kind, concurrency, per_host, tpc, tout, sem_all,
                   sem_host, module_map, ndjson>>
    /\ UNCHANGED exceptBatch

\* after the loop / the gather: save the snapshot (run_probe keeps none)
Commit ==
    /\ rpc = "running"
    /\ \A t \in Tasks : tpc[t] = "recorded"
    /\ rpc' = "committed"
    /\ persisted' = IF kind = "run_probe" THEN persisted ELSE Ok(module_map)
    /\ UNCHANGED <<kind, concurrency, per_host, tpc, tout, sem_all,
                   sem_host, module_map, ndjson>>
    /\ UNCHANGED exceptBatch

(***************************************************************************)
(* SpecWrite: the writers of the snapshot files, one file-system step at a *)
(* time, and a reader.                                                     *)
(*   save_enrich_map_atomic (enrich_urls) and write_json_atomic            *)
(*   (probe_subdomains): write the whole text to <path>.tmp, then rename   *)
(*   it over <path>.                                                       *)
(*   save_url_enrich (routers/targets/utils, called by                     *)
(*   update_url_enrich_from_dirsearch): Path.write_text on <path> itself,  *)
(*   which opens it truncating and then writes.                            *)
(* A file's content is missing, the complete text of version v, or an      *)
(* incomplete text (truncated, or a prefix of version v).                  *)
(***************************************************************************)
MaxWrites == 3

Writers == {"save_enrich_map_atomic", "write_json_atomic", "save_url_enrich"}
WritePaths == {"url_enrich", "subdomains_enrich"}
WriterPath(w) ==
    IF w = "write_json_atomic" THEN "subdomains_enrich" ELSE "url_enrich"
WriterIsAtomic(w) == w # "save_url_enrich"

NoFile == [st |-> "missing", v |-> 0]
Partial(v) == [st |-> "partial", v |-> v]
Full(v) == [st |-> "full", v |-> v]

WriteInit ==
    /\ disk = [p \in WritePaths |-> NoFile]
    /\ tmpfile = [p \in WritePaths |-> NoFile]
    /\ wpc = [w \in Writers |-> "idle"]
    /\ wdata = [w \in Writers |-> 0]
    /\ observed = [p \in WritePaths |-> NoFile]

\* the caller has the next content ready; one writer at a time per scope
BeginWrite(w) ==
    /\ \A x \in Writers : wpc[x] = "idle"
    /\ \E v \in 1..MaxWrites :
         /\ disk[WriterPath(w)].v < v
         /\ wdata' = [wdata EXCEPT ![w] = v]
    /\ wpc' = [wpc EXCEPT ![w] = "open"]
    /\ UNCHANGED <<disk, tmpfile, observed>>
    /\ UNCHANGED exceptWrite

\* open(..., "w"): the file written to exists and is empty
OpenTruncate(w) ==
    /\ wpc[w] = "open"
    /\ IF WriterIsAtomic(w)
       THEN /\ tmpfile' = [tmpfile EXCEPT ![WriterPath(w)] = Partial(wdata[w])]
            /\ UNCHANGED disk
       ELSE /\ disk' = [disk EXCEPT ![WriterPath(w)] = Partial(wdata[w])]
            /\ UNCHANGED tmpfile
    /\ wpc' = [wpc EXCEPT ![w] = "writing"]
    /\ UNCHANGED <<wdata, observed>>
    /\ UNCHANGED exceptWrite

\* the text is written out and the file closed
WriteText(w) ==
    /\ wpc[w] = "writing"
    /\ IF WriterIsAtomic(w)
       THEN /\ tmpfile' = [tmpfile EXCEPT ![WriterPath(w)] = Full(wdata[w])]
            /\ wpc' = [wpc EXCEPT ![w] = "rename"]
            /\ UNCHANGED disk
       ELSE /\ disk' = [disk EXCEPT ![WriterPath(w)] = Full(wdata[w])]
            /\ wpc' = [wpc EXCEPT ![w] = "idle"]
            /\ UNCHANGED tmpfile
    /\ UNCHANGED <<wdata, observed>>
    /\ UNCHANGED exceptWrite

\* tmp.replace(path) / os.replace(tmp, path)
Replace(w) ==
    /\ wpc[w] = "rename"
    /\ disk' = [disk EXCEPT ![WriterPath(w)] = tmpfile[WriterPath(w)]]
    /\ tmpfile' = [tmpfile EXCEPT ![WriterPath(w)] = NoFile]
    /\ wpc' = [wpc EXCEPT ![w] = "idle"]
    /\ UNCHANGED <<wdata, observed>>
    /\ UNCHANGED exceptWrite

\* a reader opens the snapshot and reads what is there
ReadSnapshot(p) ==
    /\ observed' = [observed EXCEPT ![p] = disk[p]]
    /\ UNCHANGED <<disk, tmpfile, wpc, wdata>>
    /\ UNCHANGED exceptWrite

(***************************************************************************)
(* enrich_urls.canon_url.  A URL is held as the parts urlsplit gives:      *)
(* scheme, hostname, port (None or a number), path (a sequence of          *)
(* characters and segment names), query and fragment.  The canonical URL   *)
(* is the parts handed to urlunsplit: lower-case scheme (http when empty)  *)
(* and host, the port only when it is not the scheme's default, "/" for an *)
(* empty path, one trailing slash removed, the query kept, no fragment.    *)
(***************************************************************************)
Lower(s) ==
    CASE s = "HTTP" -> "http"
      [] s = "HTTPS" -> "https"
      [] s = "H1" -> "h1"
      [] s = "H2" -> "h2"
      [] OTHER -> s

Url(scheme, host, port, path, query, fragment) ==
    [scheme |-> scheme, host |-> host, port |-> port, path |-> path,
     query |-> query, fragment |-> fragment]

IsDefaultPort(scheme, port) ==
    \/ scheme = "http" /\ port = 80
    \/ scheme = "https" /\ port = 443

CanonPath(p) ==
    LET path == IF p = <<>> THEN <<"/">> ELSE p IN
    IF path # <<"/">> /\ path[Len(path)] = "/"
    THEN SubSeq(path, 1, Len(path) - 1)
    ELSE path

CanonUrl(u) ==
    LET scheme == Lower(IF u.scheme = "" THEN "http" ELSE u.scheme)
        host == Lower(u.host)
        keep == /\ ~IsNone(u.port)
                /\ Val(u.port) # 0
                /\ ~IsDefaultPort(scheme, Val(u.port)) IN
    Url(scheme, host, IF keep THEN u.port ELSE None, CanonPath(u.path),
        u.query, "")

(***************************************************************************)
(* SpecOrder: one batch whose requests have all been chosen their          *)
(* outcomes; the results are recorded in any completion order              *)
(* (asyncio.as_completed in probe_urls._runner, the tail of do_one under   *)
(* asyncio.gather in probe_paths._runner), then the module map is saved.   *)
(* probe_urls reads its URLs from the input file line by line; probe_paths *)
(* builds its work as targets x pathspecs, a pathspec being a path and a   *)
(* method.  Neither removes items that share a canonical key.              *)
(***************************************************************************)
MaxWork == 2

OrderKinds == {"probe_urls", "probe_paths"}
RawUrls == {Url("http", "h1", None, <<"/", "a">>, "", ""),
            Url("http", "h1", None, <<"/", "a", "/">>, "", ""),
            Url("http", "h1", None, <<"/", "b">>, "", "")}
OrderMethods == {"GET", "POST"}
OrderOutcomes == {Resp(200), Resp(404), Exc("HTTPError", "connection refused")}
WorkItems(k) ==
    {[url |-> u, method |-> m] :
        u \in RawUrls,
        m \in IF k = "probe_paths" THEN OrderMethods ELSE {"GET"}}

\* the record and key one completed item puts into the module map mm
RecordResult(k, mm, item, o, t) ==
    LET key == CanonUrl(item.url) IN
    IF k = "probe_urls"
    THEN Put(mm, key,
             UrlStamp(FetchUrl(<<o>>, 0, item.url, item.method, t),
                      "docs", t))
    ELSE Put(mm, key,
             Put(FetchPath(o, item.url, item.method, t).rec, "first_seen",
                 PathsFirstSeen(mm, key, t)))

OrderInit ==
    /\ okind \in OrderKinds
    /\ work \in UNION {[1..n -> WorkItems(okind)] : n \in 1..MaxWork}
    /\ wout \in [1..Len(work) -> OrderOutcomes]
    /\ undrained = 1..Len(work)
    /\ omap = EmptyMap
    /\ osnap = Missing

\* the loop body of as_completed / the tail of do_one, for the item that
\* completes next
RecordCompleted(i) ==
    /\ i \in undrained
    /\ osnap = Missing
    /\ omap' = RecordResult(okind, omap, work[i], wout[i], now)
    /\ undrained' = undrained \ {i}
    /\ UNCHANGED <<okind, work, wout, osnap>>
    /\ UNCHANGED exceptOrder

\* save_enrich_map_atomic(module_enrich_path, module_map)
SaveModuleMap ==
    /\ undrained = {}
    /\ osnap = Missing
    /\ osnap' = Ok(omap)
    /\ UNCHANGED <<okind, work, wout, undrained, omap>>
    /\ UNCHANGED exceptOrder

(***************************************************************************)
(* SpecLock: enrich_subdomains.start_probe and _run_probe on one event     *)
(* loop.  start_probe is a plain function: its two tests, create_task and  *)
(* the registration run without interruption.  A created task first runs   *)
(* up to its first await: it writes the state file, unlinks the NDJSON     *)
(* file and writes the lock file, none of it inside the try; an exception  *)
(* there ends the task with the finally block not reached.  After the      *)
(* gather the finally block unlinks the lock and pops the registry entry   *)
(* of the scope.  A lock file may be left by an earlier process.           *)
(***************************************************************************)
MaxStarts == 3

Scopes == {"s1", "s2"}
TaskIds == 1..MaxStarts
NoTask == 0

\* task.done() is false from create_task until the coroutine has ended
TaskActive(pc) == pc \in {"created", "gathering"}

\* scope in _running_tasks and not _running_tasks[scope].done()
RegistryUnchecked(tasks, pcs, scope) == FALSE
RegistryBlocks(tasks, pcs, scope) ==
    tasks[scope] # NoTask /\ TaskActive(pcs[tasks[scope]])

\* lock_path(outputs_dir, scope).exists()
LockBlocks(lf, scope) == lf[scope]

LockInit ==
    /\ running_tasks = [s \in Scopes |-> NoTask]
    /\ task_pc = [t \in TaskIds |-> "none"]
    /\ task_scope = [t \in TaskIds |-> "none"]
    /\ lock_file \in [Scopes -> BOOLEAN]
    /\ last_start = [scope |-> "none", ret |-> FALSE, busy |-> FALSE,
                     locked |-> FALSE, task |-> NoTask]

ActiveRuns(scope) ==
    {t \in TaskIds : task_scope[t] = scope /\ TaskActive(task_pc[t])}

StartProbe(scope) ==
    LET busy == ActiveRuns(scope) # {}
        locked == lock_file[scope] IN
    IF RegistryBlocks(running_tasks, task_pc, scope)
       \/ LockBlocks(lock_file, scope)
    THEN /\ last_start' = [scope |-> scope, ret |-> FALSE, busy |-> busy,
                           locked |-> locked, task |-> NoTask]
         /\ UNCHANGED <<running_tasks, task_pc, task_scope, lock_file>>
         /\ UNCHANGED exceptLock
    ELSE /\ \E t \in TaskIds :
              /\ task_pc[t] = "none"
              /\ \A x \in TaskIds : x < t => task_pc[x] # "none"
              /\ task_pc' = [task_pc EXCEPT ![t] = "created"]
              /\ task_scope' = [task_scope EXCEPT ![t] = scope]
              /\ running_tasks' = [running_tasks EXCEPT ![scope] = t]
              /\ last_start' = [scope |-> scope, ret |-> TRUE, busy |-> busy,
                                locked |-> locked, task |-> t]
         /\ UNCHANGED lock_file
         /\ UNCHANGED exceptLock

\* _run_probe from its start to the gather: state written, NDJSON unlinked,
\* lock written
RunProbeBegin(t) ==
    /\ task_pc[t] = "created"
    /\ task_pc' = [task_pc EXCEPT ![t] = "gathering"]
    /\ lock_file' = [lock_file EXCEPT ![task_scope[t]] = TRUE]
    /\ UNCHANGED <<running_tasks, task_scope, last_start>>
    /\ UNCHANGED exceptLock

\* an OSError from _write_state or unlink (before the lock is written), or
\* from lp.write_text / the client's construction (the lock may be there):
\* the coroutine ends outside the try
RunProbeBeginRaises(t) ==
    /\ task_pc[t] = "created"
    /\ task_pc' = [task_pc EXCEPT ![t] = "raised"]
    /\ \E written \in BOOLEAN :
         lock_file' = [lock_file EXCEPT
                         ![task_scope[t]] = @ \/ written]
    /\ UNCHANGED <<running_tasks, task_scope, last_start>>
    /\ UNCHANGED exceptLock

\* the gather returns or raises; finally: lp.unlink(missing_ok=True) and
\* _running_tasks.pop(scope, None)
RunProbeFinish(t) ==
    /\ task_pc[t] = "gathering"
    /\ task_pc' = [task_pc EXCEPT ![t] = "done"]
    /\ lock_file' = [lock_file EXCEPT ![task_scope[t]] = FALSE]
    /\ running_tasks' = [running_tasks EXCEPT ![task_scope[t]] = NoTask]
    /\ UNCHANGED <<task_scope, last_start>>
    /\ UNCHANGED exceptLock

(***************************************************************************)
(* Rule documents and URLs for the classification engines.  A pattern is   *)
(* held by its source text, whether re.compile accepts it, and the URLs    *)
(* of the universe its search finds a match in.  A rule spec of a document *)
(* has id, label, reason, pattern and code_in; the optional host, path and *)
(* method constraints are absent from the documents used here.             *)
(***************************************************************************)
ClsUrls == {"u1", "u2"}
Pattern(src, ok, hits) == [src |-> src, ok |-> ok, hits |-> hits]
PatAll == Pattern(".*", TRUE, ClsUrls)
PatU1 == Pattern("u1", TRUE, {"u1"})
PatBad == Pattern("(", FALSE, {})
PatEmpty == Pattern("", TRUE, ClsUrls)

RuleSpec(id, label, reason, pattern, code_in) ==
    [id |-> id, label |-> label, reason |-> reason, pattern |-> pattern,
     code_in |-> code_in]

RuleDefs ==
    {RuleSpec("r1", "HIGH", "", PatU1, {}),
     RuleSpec("r1", "medium", "m", PatAll, {}),
     RuleSpec("r2", "LOW", "", PatAll, {}),
     RuleSpec("r2", "INFO", "", PatAll, {}),
     RuleSpec("r3", "HIGH", "", PatAll, {200}),
     RuleSpec("r3", "HIGH", "", PatBad, {}),
     RuleSpec("r4", "BOGUS", "", PatEmpty, {})}

Upper(s) ==
    CASE s = "high" -> "HIGH"
      [] s = "medium" -> "MEDIUM"
      [] s = "low" -> "LOW"
      [] s = "info" -> "INFO"
      [] OTHER -> s

\* x or default, for strings
OrStr(x, default) == IF x = "" THEN default ELSE x

(***************************************************************************)
(* ai_apply: _normalize_rules, compile_rules, _severity_weight,            *)
(* _maybe_demote and apply_rules.                                          *)
(***************************************************************************)
VALID_LABELS == {"HIGH", "MEDIUM", "LOW", "INFO"}

NormalizeKeeps(r) == Upper(r.label) \in VALID_LABELS /\ r.pattern.src # ""
NormalizeRule(r) ==
    [id |-> OrStr(r.id, "rule"), label |-> Upper(r.label),
     reason |-> OrStr(r.reason, Upper(r.label)), pattern |-> r.pattern,
     code_in |-> r.code_in]
NormalizeRules(rules) ==
    LET kept == SelectSeq(rules, NormalizeKeeps) IN
    [i \in 1..Len(kept) |-> NormalizeRule(kept[i])]

SeverityWeight(label) ==
    CASE Upper(label) = "HIGH" -> 4
      [] Upper(label) = "MEDIUM" -> 3
      [] Upper(label) = "LOW" -> 2
      [] Upper(label) = "INFO" -> 1
      [] OTHER -> 0

CompileKeeps(r) == r.pattern.ok
CompileRules(rules, source) ==
    LET kept == SelectSeq(rules, CompileKeeps) IN
    [i \in 1..Len(kept) |->
       [id |-> kept[i].id, label |-> kept[i].label,
        reason |-> kept[i].reason, regex |-> kept[i].pattern,
        code_in |-> kept[i].code_in, source |-> source]]

DemoteSteps == <<"INFO", "LOW", "MEDIUM", "HIGH">>
\* steps.index(label) if label in steps else 0
StepsIndex(label) ==
    IF \E i \in 1..Len(DemoteSteps) : DemoteSteps[i] = label
    THEN (CHOOSE i \in 1..Len(DemoteSteps) : DemoteSteps[i] = label) - 1
    ELSE 0
MaybeDemoteTwoSteps(label) == DemoteSteps[Max(0, StepsIndex(label) - 2) + 1]
MaybeDemote(label) == DemoteSteps[Max(0, StepsIndex(label) - 1) + 1]

SourcePrio(src) ==
    CASE src = "custom" -> 3 [] src = "ai" -> 2 [] src = "seed" -> 1
      [] OTHER -> 0

\* apply_rules.better; curr is None or <<(severity, source priority)>>
Better(curr, cand_label, cand_src_tag) ==
    LET sev == SeverityWeight(cand_label)
        srcp == SourcePrio(cand_src_tag) IN
    IF IsNone(curr) THEN TRUE
    ELSE IF sev # Val(curr)[1] THEN sev > Val(curr)[1]
         ELSE srcp > Val(curr)[2]

\* ApplyOptions; limit_sample is None or a number
ApplyOptions(demote_if_no_code, http_required, limit_sample) ==
    [demote_if_no_code |-> demote_if_no_code,
     http_required |-> http_required, limit_sample |-> limit_sample]
Truthy(o) == ~IsNone(o) /\ Val(o) # 0

NoBest == [tuple |-> None, label |-> "", reason |-> "", src |-> "",
           rule_id |-> ""]

\* the loop over rules_all for one URL
RECURSIVE BestRule(_, _, _, _, _)
BestRule(rules, url, code_i, options, best) ==
    IF rules = <<>> THEN best
    ELSE LET rule == Head(rules)
             lab == IF options.demote_if_no_code /\ IsNone(code_i)
                    THEN MaybeDemote(rule.label) ELSE rule.label
             skip == \/ /\ rule.code_in # {}
                        /\ ~IsNone(code_i)
                        /\ Val(code_i) \notin rule.code_in
                     \/ url \notin rule.regex.hits IN
         BestRule(Tail(rules), url, code_i, options,
                  IF ~skip /\ Better(best.tuple, lab, rule.source)
                  THEN [tuple |-> Some(<<SeverityWeight(lab),
                                         SourcePrio(rule.source)>>),
                        label |-> lab, reason |-> rule.reason,
                        src |-> rule.source, rule_id |-> rule.id]
                  ELSE best)

\* the loop over items: one row for every URL a rule is kept for
RECURSIVE Classify(_, _, _)
Classify(items, rules, options) ==
    IF items = <<>> THEN <<>>
    ELSE LET url == Head(items).url
             code_i == Head(items).code
             best == BestRule(rules, url, code_i, options, NoBest)
             rest == Classify(Tail(items), rules, options) IN
         IF options.http_required /\ IsNone(code_i) THEN rest
         ELSE IF best.label # ""
              THEN <<[url |-> url, label |-> best.label,
                      reason |-> best.reason, final_label |-> best.label,
                      source |-> best.src, rule_id |-> best.rule_id,
                      code |-> code_i]>> \o rest
              ELSE rest

\* counts = {"HIGH": 0, ...}; counts[label] = counts.get(label, 0) + 1
CountRows(rows, field) ==
    [l \in VALID_LABELS \cup {rows[i][field] : i \in 1..Len(rows)} |->
       Cardinality({i \in 1..Len(rows) : rows[i][field] = l})]
\* sum(counts.values())
RECURSIVE SumOver(_, _)
SumOver(counts, keys) ==
    IF keys = {} THEN 0
    ELSE LET k == CHOOSE x \in keys : TRUE IN
         counts[k] + SumOver(counts, keys \ {k})
SumCounts(counts) == SumOver(counts, DOMAIN counts)

\* {ln: {} for ln in lines}: a dict keeps the first position of a key
RECURSIVE LinesToUrlMap(_, _)
LinesToUrlMap(lines, seen) ==
    IF lines = <<>> THEN <<>>
    ELSE (IF Head(lines) \in seen THEN <<>>
          ELSE <<[url |-> Head(lines), code |-> None]>>)
           \o LinesToUrlMap(Tail(lines), seen \cup {Head(lines)})

Take(xs, n) == SubSeq(xs, 1, IF n < Len(xs) THEN n ELSE Len(xs))

ApplyFailed(error, total) ==
    [ok |-> FALSE, raised |-> FALSE, error |-> error, rules |-> <<>>,
     counts |-> [l \in VALID_LABELS |-> 0], total_classified |-> 0,
     total_source |-> total, results |-> <<>>]

\* ai_apply.apply_rules.  url_map is url_enrich.json as the sequence of its
\* items (empty for a missing, corrupt or empty file); urls_txt the lines
\* of urls.txt.
ApplyRules(docs, sources, url_map, urls_txt, options) ==
    LET corpus == IF url_map # <<>> THEN url_map
                  ELSE LinesToUrlMap(urls_txt, {})
        rules_all ==
            (IF "seed" \in sources
             THEN CompileRules(NormalizeRules(docs.seed), "seed") ELSE <<>>)
            \o (IF "custom" \in sources
                THEN CompileRules(NormalizeRules(docs.custom), "custom")
                ELSE <<>>)
            \o (IF "ai" \in sources
                THEN CompileRules(NormalizeRules(docs.ai), "ai") ELSE <<>>)
        items == IF Truthy(options.limit_sample)
                 THEN Take(corpus, Val(options.limit_sample)) ELSE corpus
        classified == Classify(items, rules_all, options)
        counts == CountRows(classified, "label") IN
    IF corpus = <<>> THEN ApplyFailed("No URL corpus", 0)
    ELSE IF rules_all = <<>>
         THEN ApplyFailed("No rules for selected sources", Len(corpus))
         ELSE [ok |-> TRUE, raised |-> FALSE, error |-> "",
               rules |-> rules_all, counts |-> counts,
               total_classified |-> SumCounts(counts),
               total_source |-> Len(corpus), results |-> classified]

(***************************************************************************)
(* ai_rules: load_rules, _compile_rule, _matches_rule, _demote_by_http,    *)
(* apply_rules and preview_rules.  The enrichment map is a function from   *)
(* keys to records; a record holds a code or None.                         *)
(***************************************************************************)
LABELS == <<"HIGH", "MEDIUM", "LOW", "INFO">>

\* merged[r["id"]] = r: a key keeps the position of its first insertion
RECURSIVE MergeById(_, _)
MergeById(merged, rules) ==
    IF rules = <<>> THEN merged
    ELSE LET r == Head(rules)
             at == {i \in 1..Len(merged) : merged[i].id = r.id} IN
         MergeById(IF r.id = "" THEN merged
                   ELSE IF at # {}
                        THEN [merged EXCEPT ![CHOOSE i \in at : TRUE] = r]
                        ELSE Append(merged, r),
                   Tail(rules))

\* _compile_rule: re.compile(pattern or ".*") raises re.error for a
\* pattern that does not compile
RulesCompileRaises(r) == ~r.pattern.ok
RulesCompileRule(r) ==
    [id |-> r.id, label |-> r.label, reason |-> r.reason,
     regex |-> IF r.pattern.src = "" THEN PatAll ELSE r.pattern,
     code_in |-> r.code_in]

LoadRules(seed, custom) ==
    LET merged == MergeById(MergeById(<<>>, seed), custom) IN
    [raised |-> \E i \in 1..Len(merged) : RulesCompileRaises(merged[i]),
     version |-> IF custom # <<>> THEN "seed+custom" ELSE "seed",
     rules |-> [i \in 1..Len(merged) |-> RulesCompileRule(merged[i])]]

\* rec is None or <<record>>
RecCode(rec) == IF IsNone(rec) THEN None ELSE Val(rec).code

MatchesRule(url, rec, rule) ==
    /\ url \in rule.regex.hits
    /\ rule.code_in # {}
         => (~IsNone(RecCode(rec)) /\ Val(RecCode(rec)) \in rule.code_in)

DemoteByHttpBlockedOnly403(label, rec, demote_blocked, demote_404) ==
    IF IsNone(RecCode(rec)) THEN label
    ELSE IF demote_blocked /\ Val(RecCode(rec)) = 403 THEN "INFO"
    ELSE IF demote_404 /\ Val(RecCode(rec)) = 404 THEN "INFO"
    ELSE label
DemoteByHttp(label, rec, demote_blocked, demote_404) ==
    IF IsNone(RecCode(rec)) THEN label
    ELSE IF demote_blocked /\ Val(RecCode(rec)) \in {401, 403} THEN "INFO"
    ELSE IF demote_404 /\ Val(RecCode(rec)) = 404 THEN "INFO"
    ELSE label

\* url.rstrip("/") and url + "/"
RStripSlash(url) == IF url = "u1/" THEN "u1" ELSE url
AddSlash(url) ==
    CASE url = "u1" -> "u1/" [] url = "u2" -> "u2/" [] OTHER -> url

\* enrich_map.get(url) or enrich_map.get(url.rstrip("/"))
\*   or enrich_map.get(url + "/")
EnrichGet(enrich_map, url) ==
    IF url \in DOMAIN enrich_map THEN Some(enrich_map[url])
    ELSE IF RStripSlash(url) \in DOMAIN enrich_map
         THEN Some(enrich_map[RStripSlash(url)])
         ELSE IF AddSlash(url) \in DOMAIN enrich_map
              THEN Some(enrich_map[AddSlash(url)])
              ELSE None

\* for r in rules: if _matches_rule(url, rec, r): matched = r; break
FirstMatch(url, rec, rules) ==
    LET at == {i \in 1..Len(rules) : MatchesRule(url, rec, rules[i])} IN
    IF at = {} THEN None
    ELSE Some(rules[CHOOSE i \in at : \A j \in at : i <= j])

RuleLabel(r) == Upper(OrStr(r.label, "INFO"))
InLabels(label) == \E i \in 1..Len(LABELS) : LABELS[i] = label

\* the loop over urls of apply_rules (checked) and of preview_rules
RECURSIVE RulesClassify(_, _, _, _, _, _)
RulesClassify(urls, rules, enrich_map, demote_blocked, demote_404, checked) ==
    IF urls = <<>> THEN <<>>
    ELSE LET url == Head(urls)
             rec == EnrichGet(enrich_map, url)
             matched == FirstMatch(url, rec, rules)
             label == IF checked /\ ~InLabels(RuleLabel(Val(matched)))
                      THEN "INFO" ELSE RuleLabel(Val(matched))
             rest == RulesClassify(Tail(urls), rules, enrich_map,
                                   demote_blocked, demote_404, checked) IN
         IF IsNone(matched) THEN rest
         ELSE <<[url |-> url, rule_id |-> Val(matched).id,
                 label |-> RuleLabel(Val(matched)),
                 reason |-> Val(matched).reason,
                 final_label |-> DemoteByHttp(label, rec, demote_blocked,
                                              demote_404),
                 code |-> RecCode(rec)]>> \o rest

RulesRaised ==
    [ok |-> FALSE, raised |-> TRUE, error |-> "re.error", rules |-> <<>>,
     counts |-> [l \in VALID_LABELS |-> 0], total_classified |-> 0,
     total_source |-> 0, results |-> <<>>]

\* ai_rules.apply_rules; results_sample (a shuffled, quota-bounded part of
\* results) is not part of the output kept here
RulesApplyRules(seed, custom, urls, enrich_map, demote_blocked, demote_404) ==
    LET loaded == LoadRules(seed, custom)
        results == RulesClassify(urls, loaded.rules, enrich_map,
                                 demote_blocked, demote_404, TRUE)
        counts == CountRows(results, "final_label") IN
    IF loaded.raised THEN RulesRaised
    ELSE [ok |-> TRUE, raised |-> FALSE, error |-> "",
          rules |-> loaded.rules, counts |-> counts,
          total_classified |-> SumCounts(counts),
          total_source |-> Len(urls), results |-> results]

\* rnd[: max(1, min(limit, len(rnd)))]
PreviewSampleOfOne(limit, n) == 1
PreviewSampleSize(limit, n) == Max(1, IF limit < n THEN limit ELSE n)

Shuffles(n) ==
    {f \in [1..n -> 1..n] : \A i, j \in 1..n : i # j => f[i] # f[j]}

\* ai_rules.preview_rules; shuffle is the order random.shuffle leaves the
\* list in, a permutation of its positions
PreviewRules(seed, custom, urls, enrich_map, limit, demote_blocked, demote_404, shuffle) ==
    LET loaded == LoadRules(seed, custom)
        rnd == [i \in 1..Len(urls) |-> urls[shuffle[i]]]
        sample_urls == Take(rnd, PreviewSampleSize(limit, Len(rnd)))
        results == RulesClassify(sample_urls, loaded.rules, enrich_map,
                                 demote_blocked, demote_404, FALSE)
        counts == CountRows(results, "final_label") IN
    IF loaded.raised THEN RulesRaised
    ELSE IF urls = <<>>
         THEN [ok |-> TRUE, raised |-> FALSE, error |-> "",
               rules |-> loaded.rules, counts |-> EmptyMap,
               total_classified |-> 0, total_source |-> 0,
               results |-> <<>>]
         ELSE [ok |-> TRUE, raised |-> FALSE, error |-> "",
               rules |-> loaded.rules, counts |-> counts,
               total_classified |-> SumCounts(counts),
               total_source |-> Len(sample_urls), results |-> results]

(***************************************************************************)
(* __main__: Rule.match, classify_url and the classification loop of main. *)
(* A category is held by its enabled flag and the URLs that pass all its   *)
(* host, path, query-key and extension tests.  The lines are URLs of the   *)
(* scope, so the scope filters let them through.                           *)
(***************************************************************************)
MainCategories == {"docs", "params"}

RuleMatch(rule, url) == rule.enabled /\ url \in rule.hits

ClassifyUrl(url, rules) ==
    {name \in DOMAIN rules : RuleMatch(rules[name], url)}

\* the loop over the input lines; buffers maps a category to its set
RECURSIVE MainBuffers(_, _, _, _)
MainBuffers(lines, rules, ci_dedup, buffers) ==
    IF lines = <<>> THEN buffers
    ELSE LET url == Head(lines)
             cats == ClassifyUrl(url, rules)
             val == IF ci_dedup THEN Lower(url) ELSE url
             into == IF cats # {} THEN cats \cap DOMAIN buffers
                     ELSE {"other"} IN
         MainBuffers(Tail(lines), rules, ci_dedup,
                     [c \in DOMAIN buffers |->
                        IF c \in into THEN buffers[c] \cup {val}
                        ELSE buffers[c]])

MainClassify(lines, rules, ci_dedup) ==
    LET cats == {name \in DOMAIN rules : rules[name].enabled} \cup {"other"}
        buffers == MainBuffers(lines, rules, ci_dedup,
                               [c \in cats |-> {}]) IN
    [ok |-> TRUE, raised |-> FALSE, buffers |-> buffers,
     counts |-> [c \in cats |-> Cardinality(buffers[c])],
     total_in |-> Len(lines)]

(***************************************************************************)
(* SpecRules: one classification call on enumerated inputs, and the same   *)
(* call made once more on the same inputs.                                 *)
(***************************************************************************)
MaxRules == 2
MaxCorpus == 2

HybridSources == {"seed", "custom", "ai"}
ApplyCodes == {None, Some(200), Some(404)}
RulesCodes == {None, Some(200), Some(401), Some(403), Some(404)}
ApplyDefs == {r \in RuleDefs : r.code_in = {} /\ r.pattern.src # ""}
RulesDefs == {r \in RuleDefs : r.id \in {"r1", "r3", "r4"}}
ApplyOptionSets ==
    {ApplyOptions(TRUE, FALSE, None), ApplyOptions(FALSE, FALSE, None),
     ApplyOptions(TRUE, TRUE, None), ApplyOptions(TRUE, FALSE, Some(1))}
PreviewDefs == {r \in RuleDefs : r.label \in {"HIGH", "LOW"} /\ r.code_in = {}}

SeqsUpTo(S, n) == UNION {[1..k -> S] : k \in 0..n}
UrlLists == SeqsUpTo(ClsUrls, MaxCorpus)
UrlMaps ==
    {m \in SeqsUpTo([url : ClsUrls, code : ApplyCodes], MaxCorpus) :
        \A i, j \in 1..Len(m) : i # j => m[i].url # m[j].url}
EnrichMaps ==
    {EmptyMap, [k \in {"u1/"} |-> [code |-> Some(403)]],
     [k \in ClsUrls |-> [code |-> IF k = "u1" THEN Some(200) ELSE Some(404)]]}
      \cup {[k \in {"u1"} |-> [code |-> c]] : c \in RulesCodes}
PreviewEnrichMaps ==
    {m \in EnrichMaps : \A k \in DOMAIN m : m[k].code \in {Some(200), Some(404)}}

NoRCall == [fn |-> "none", in |-> EmptyMap, out |-> EmptyMap]
NoRerun == [done |-> FALSE, counts |-> EmptyMap]

RulesInit ==
    /\ rcall = NoRCall
    /\ rerun = NoRerun

CallApplyRules ==
    /\ rcall.fn = "none"
    /\ \E n1 \in 0..MaxRules :
       \E n2 \in 0..(MaxRules - n1) :
       \E n3 \in 0..(MaxRules - n1 - n2) :
       \E seed \in [1..n1 -> ApplyDefs], custom \in [1..n2 -> ApplyDefs],
          ai \in [1..n3 -> ApplyDefs], url_map \in UrlMaps,
          options \in ApplyOptionSets :
       \E urls_txt \in IF url_map = <<>> THEN UrlLists ELSE {<<>>} :
         LET in == [docs |-> [seed |-> seed, custom |-> custom, ai |-> ai],
                    sources |-> HybridSources, url_map |-> url_map,
                    urls_txt |-> urls_txt,
                    options |-> options] IN
         rcall' = [fn |-> "ai_apply.apply_rules", in |-> in,
                   out |-> ApplyRules(in.docs, in.sources, in.url_map,
                                      in.urls_txt, in.options)]
    /\ UNCHANGED rerun
    /\ UNCHANGED exceptRules

CallRulesApplyRules ==
    /\ rcall.fn = "none"
    /\ \E n1 \in 0..MaxRules :
       \E n2 \in 0..(MaxRules - n1) :
       \E seed \in [1..n1 -> RulesDefs], custom \in [1..n2 -> RulesDefs],
          urls \in UrlLists, enrich_map \in EnrichMaps,
          demote_blocked \in BOOLEAN, demote_404 \in BOOLEAN :
         LET in == [seed |-> seed, custom |-> custom, urls |-> urls,
                    enrich_map |-> enrich_map,
                    demote_blocked |-> demote_blocked,
                    demote_404 |-> demote_404] IN
         rcall' = [fn |-> "ai_rules.apply_rules", in |-> in,
                   out |-> RulesApplyRules(seed, custom, urls, enrich_map,
                                           demote_blocked, demote_404)]
    /\ UNCHANGED rerun
    /\ UNCHANGED exceptRules

CallPreviewRules ==
    /\ rcall.fn = "none"
    /\ \E n1 \in 0..MaxRules :
       \E n2 \in 0..(MaxRules - n1) :
       \E seed \in [1..n1 -> PreviewDefs], custom \in [1..n2 -> PreviewDefs],
          urls \in UrlLists, enrich_map \in PreviewEnrichMaps,
          limit \in 1..MaxCorpus, demote \in BOOLEAN :
       \E shuffle \in Shuffles(Len(urls)) :
         LET in == [seed |-> seed, custom |-> custom, urls |-> urls,
                    enrich_map |-> enrich_map, limit |-> limit,
                    demote_blocked |-> demote, demote_404 |-> demote] IN
         rcall' = [fn |-> "ai_rules.preview_rules", in |-> in,
                   out |-> PreviewRules(seed, custom, urls, enrich_map,
                                        limit, demote, demote, shuffle)]
    /\ UNCHANGED rerun
    /\ UNCHANGED exceptRules

CallMainClassify ==
    /\ rcall.fn = "none"
    /\ \E rules \in [MainCategories ->
                       [enabled : BOOLEAN, hits : SUBSET ClsUrls]],
          lines \in UrlLists, ci_dedup \in BOOLEAN :
         rcall' = [fn |-> "__main__.main",
                   in |-> [rules |-> rules, lines |-> lines,
                           ci_dedup |-> ci_dedup],
                   out |-> MainClassify(lines, rules, ci_dedup)]
    /\ UNCHANGED rerun
    /\ UNCHANGED exceptRules

\* the same request made again: the files have not changed
RunAgain ==
    /\ rcall.fn # "none"
    /\ ~rerun.done
    /\ \E shuffle \in Shuffles(IF rcall.fn = "ai_rules.preview_rules"
                                   THEN Len(rcall.in.urls) ELSE 0) :
         LET in == rcall.in
             out ==
               CASE rcall.fn = "ai_apply.apply_rules" ->
                      ApplyRules(in.docs, in.sources, in.url_map,
                                 in.urls_txt, in.options)
                 [] rcall.fn = "ai_rules.apply_rules" ->
                      RulesApplyRules(in.seed, in.custom, in.urls,
                                      in.enrich_map, in.demote_blocked,
                                      in.demote_404)
                 [] rcall.fn = "ai_rules.preview_rules" ->
                      PreviewRules(in.seed, in.custom, in.urls,
                                   in.enrich_map, in.limit,
                                   in.demote_blocked, in.demote_404,
                                   shuffle)
                 [] rcall.fn = "__main__.main" ->
                      MainClassify(in.lines, in.rules, in.ci_dedup) IN
         rerun' = [done |-> TRUE, counts |-> out.counts]
    /\ UNCHANGED rcall
    /\ UNCHANGED exceptRules

(***************************************************************************)
(* ai_rulegen: generate_rules_from_samples.  A URL is held with the set of *)
(* rule families whose extension or directory markers occur in its        *)
(* lower-cased text; a model reply is held by what _json_loads_loose makes *)
(* of it.                                                                  *)
(***************************************************************************)
MaxGenCorpus == 2
MaxGenRetries == 1

GenFamilies == <<"archives", "db", "admin", "upload", "config", "logs",
                 "src", "docs">>
GenUrl(text, marks) == [text |-> text, marks |-> marks]
GenUrls == {GenUrl("http://h1/", {}),
            GenUrl("http://h1/a.zip", {"archives"}),
            GenUrl("http://h1/admin/x.pdf", {"admin", "docs"})}

FbRule(family) ==
    CASE family = "archives" ->
           RuleSpec("fb-high-archives", "HIGH",
                    "Backup/source archives exposed",
                    Pattern("archives", TRUE, {}), {200, 206})
      [] family = "db" ->
           RuleSpec("fb-high-db", "HIGH", "Database dumps exposed",
                    Pattern("db", TRUE, {}), {200, 206})
      [] family = "admin" ->
           RuleSpec("fb-medium-admin", "MEDIUM",
                    "Admin panels or dashboards",
                    Pattern("admin", TRUE, {}), {200, 302, 401, 403})
      [] family = "upload" ->
           RuleSpec("fb-medium-upload", "MEDIUM",
                    "Upload or file manager directories",
                    Pattern("upload", TRUE, {}), {200, 403})
      [] family = "config" ->
           RuleSpec("fb-low-config", "LOW", "Config or environment files",
                    Pattern("config", TRUE, {}), {200, 403})
      [] family = "logs" ->
           RuleSpec("fb-low-logs", "LOW", "Log files exposed",
                    Pattern("logs", TRUE, {}), {200, 403})
      [] family = "src" ->
           RuleSpec("fb-info-src", "INFO", "Source code paths",
                    Pattern("src", TRUE, {}), {200, 403})
      [] family = "docs" ->
           RuleSpec("fb-info-docs", "INFO", "Document/data files",
                    Pattern("docs", TRUE, {}), {200, 206})

\* one add_rule per family counted at least once in the sample
FallbackRulesFromUrls(urls, max_rules) ==
    LET seen == UNION {urls[i].marks : i \in 1..Len(urls)}
        hit == SelectSeq(GenFamilies, LAMBDA f : f \in seen) IN
    Take([i \in 1..Len(hit) |-> FbRule(hit[i])], max_rules)

\* random.seed(42); random.sample(urls, sample_size): sample_size distinct
\* positions in some order, every choice allowed here
SampleUrls(urls, sample_size) ==
    IF urls = <<>> THEN {<<>>}
    ELSE IF sample_size <= 0 \/ sample_size >= Len(urls)
         THEN {Take(urls, 1000)}
         ELSE {[i \in 1..sample_size |-> urls[pos[i]]] :
                 pos \in {p \in [1..sample_size -> 1..Len(urls)] :
                            \A i, j \in 1..sample_size :
                              i # j => p[i] # p[j]}}

\* an element of the model's JSON value
GenObj(isdict, id, label, pattern, pattern_is_str) ==
    [isdict |-> isdict, id |-> id, label |-> label, pattern |-> pattern,
     pattern_is_str |-> pattern_is_str]
GoodObj == GenObj(TRUE, "", "high", Pattern("\\.bak$", TRUE, {}), TRUE)
BadObj == GenObj(TRUE, "x", "HIGH", PatBad, TRUE)
EmptyObj == GenObj(TRUE, "x", "LOW", PatEmpty, TRUE)
NamedObj ==
    GenObj(TRUE, "My Rule", "bogus", Pattern("/tmp/", TRUE, {}), TRUE)
ScalarObj == GenObj(FALSE, "", "", PatEmpty, FALSE)

\* what _json_loads_loose returns: None, a list, a dict with a "rules"
\* list, one rule dict, or a dict that is neither
GenData(k, items) == [kind |-> k, items |-> items]
\* re.sub(r"[^a-zA-Z0-9_\-\.]", "-", rid).lower()
GenRid(id) ==
    CASE id = "My Rule" -> "my-rule"
      [] OTHER -> id
GenDefaultId(i) ==
    CASE i = 1 -> "custom-1"
      [] i = 2 -> "custom-2"
      [] OTHER -> "custom-n"

ValidateKeeps(obj) ==
    /\ obj.isdict
    /\ obj.pattern_is_str
    /\ obj.pattern.src # ""
    /\ obj.pattern.ok

ValidateObj(obj, i) ==
    LET label == Upper(OrStr(obj.label, "INFO")) IN
    [id |-> GenRid(IF obj.id = "" THEN GenDefaultId(i) ELSE obj.id),
     label |-> IF InLabels(label) THEN label ELSE "INFO",
     reason |-> "-", pattern |-> obj.pattern, code_in |-> {200, 206}]

\* the loop of _validate_and_normalize with its seen set
RECURSIVE ValidateLoop(_, _, _, _)
ValidateLoop(rules, i, seen, out) ==
    IF i > Len(rules) THEN out
    ELSE IF ~ValidateKeeps(rules[i])
         THEN ValidateLoop(rules, i + 1, seen, out)
         ELSE LET r == ValidateObj(rules[i], i)
                  key == <<r.id, r.pattern.src, r.label>> IN
              IF key \in seen THEN ValidateLoop(rules, i + 1, seen, out)
              ELSE ValidateLoop(rules, i + 1, seen \cup {key},
                                Append(out, r))

ValidateAndNormalize(data) ==
    IF data.kind \in {"list", "wrapped", "single"}
    THEN ValidateLoop(data.items, 1, {}, <<>>)
    ELSE <<>>

ParseRules(data) ==
    IF data.kind = "none" THEN <<>> ELSE ValidateAndNormalize(data)

\* one attempt: _call_ollama raises, or returns a reply
GenReply(raises, data) == [raises |-> raises, data |-> data]
GenReplies ==
    {GenReply(TRUE, GenData("none", <<>>)),
     GenReply(FALSE, GenData("none", <<>>)),
     GenReply(FALSE, GenData("dict", <<>>)),
     GenReply(FALSE, GenData("list", <<>>)),
     GenReply(FALSE, GenData("list", <<BadObj>>)),
     GenReply(FALSE, GenData("list", <<ScalarObj, EmptyObj>>)),
     GenReply(FALSE, GenData("list", <<GoodObj>>)),
     GenReply(FALSE, GenData("wrapped", <<GoodObj, GoodObj>>)),
     GenReply(FALSE, GenData("single", <<NamedObj>>))}

\* the attempts loop: the rules of the first attempt that parses to a
\* non-empty list, and the errors collected before it
RECURSIVE Attempts(_, _, _)
Attempts(replies, i, errors) ==
    IF i > Len(replies) THEN [all_rules |-> <<>>, errors |-> errors]
    ELSE IF replies[i].raises
         THEN Attempts(replies, i + 1, Append(errors, "request failed"))
         ELSE LET rules == ParseRules(replies[i].data) IN
              IF rules # <<>>
              THEN [all_rules |-> rules, errors |-> errors]
              ELSE Attempts(replies, i + 1, errors)

GenOut(ok, error, rules_count, attempts, fallback, written) ==
    [ok |-> ok, error |-> error, rules_count |-> rules_count,
     attempts |-> attempts, fallback |-> fallback, written |-> written]

NoGCall == [fn |-> "none", in |-> EmptyMap, out |-> EmptyMap]
OldGenerated == <<RuleSpec("old-1", "LOW", "-", Pattern("old", TRUE, {}),
                           {200, 206})>>
GenInit ==
    /\ gcall = NoGCall
    /\ gen_file \in {None, Some(OldGenerated)}

GenAttempts(retries) == IF 1 + retries > 1 THEN 1 + retries ELSE 1

\* urls.txt has at least one URL
GenerateRulesFromSamples ==
    /\ gcall.fn = "none"
    /\ \E urls \in SeqsUpTo(GenUrls, MaxGenCorpus) \ {<<>>},
          sample_size \in {200, 1, 2},
          retries \in 0..MaxGenRetries :
         \E sample \in SampleUrls(urls, sample_size),
            replies \in [1..GenAttempts(retries) -> GenReplies] :
           LET tried == Attempts(replies, 1, <<>>)
               fb == FallbackRulesFromUrls(sample, 12)
               in == [urls |-> urls, sample_size |-> sample_size,
                      retries |-> retries, replies |-> replies,
                      sample |-> sample] IN
           IF tried.all_rules # <<>>
           THEN /\ gen_file' = Some(tried.all_rules)
                /\ gcall' = [fn |-> "generate_rules_from_samples",
                             in |-> in,
                             out |-> GenOut(TRUE, "",
                                            Len(tried.all_rules),
                                            GenAttempts(retries), FALSE,
                                            TRUE)]
           ELSE IF fb # <<>>
           THEN /\ gen_file' = Some(fb)
                /\ gcall' = [fn |-> "generate_rules_from_samples",
                             in |-> in,
                             out |-> GenOut(TRUE, "", Len(fb),
                                            GenAttempts(retries), TRUE,
                                            TRUE)]
           ELSE /\ gen_file' = gen_file
                /\ gcall' = [fn |-> "generate_rules_from_samples",
                             in |-> in,
                             out |-> GenOut(FALSE,
                                            IF tried.errors # <<>>
                                            THEN "no valid rules | errors"
                                            ELSE "no valid rules",
                                            0, GenAttempts(retries), FALSE,
                                            FALSE)]
    /\ UNCHANGED exceptGen

\* urls.txt is missing or has no URL
GenerateRulesNoCorpus ==
    /\ gcall.fn = "none"
    /\ \E sample_size \in {200, 1, 2}, retries \in 0..MaxGenRetries :
         gcall' = [fn |-> "generate_rules_from_samples",
                   in |-> [urls |-> <<>>, sample_size |-> sample_size,
                           retries |-> retries, replies |-> <<>>,
                           sample |-> <<>>],
                   out |-> GenOut(FALSE, "urls.txt not found or empty", 0,
                                  0, FALSE, FALSE)]
    /\ UNCHANGED gen_file
    /\ UNCHANGED exceptGen

(***************************************************************************)
(* core.scope, modules.subdomains.run and the scope filter of __main__.    *)
(* A glob pattern is held by its text, the hosts fnmatch finds for it as   *)
(* written (hits) and the hosts it finds once lower-cased (lhits).         *)
(***************************************************************************)
Glob(src, hits, lhits) == [src |-> src, hits |-> hits, lhits |-> lhits]
RootDomain == "ex"
ScopeHosts == {"ex", "a.ex", "ext.org"}
Globs == {Glob("a.*", {"a.ex"}, {"a.ex"}),
          Glob("*.ex", {"a.ex"}, {"a.ex"}),
          Glob("*", ScopeHosts, ScopeHosts),
          Glob("EXT.*", {}, {"ext.org"})}

\* host == root or host.endswith("." + root)
HostInRootScope(host, root_domain) ==
    /\ host # ""
    /\ root_domain # ""
    /\ root_domain = RootDomain
    /\ Lower(host) \in {"ex", "a.ex"}

\* fnmatch(h, pat.lower()) for some pattern
MatchesAny(host, patterns) == \E pat \in patterns : Lower(host) \in pat.lhits

IsInScope(host, root_domain, allow_subdomains, deny_subdomains) ==
    IF allow_subdomains # {} THEN MatchesAny(host, allow_subdomains)
    ELSE IF deny_subdomains # {} /\ MatchesAny(host, deny_subdomains)
         THEN FALSE
         ELSE HostInRootScope(host, root_domain)

\* modules.subdomains.run: whether the host is added to hosts
SubdomainsRunKeeps(host, scope, include_external, allow, deny) ==
    include_external \/ IsInScope(host, scope, allow, deny)

\* __main__: in_scope, glob_ok, glob_block and the scope filter of main
InScope(host, scope) ==
    /\ host # ""
    /\ scope = RootDomain
    /\ Lower(host) \in {"ex", "a.ex"}
GlobOk(host, globs) == globs = {} \/ \E g \in globs : host \in g.hits
GlobBlock(host, globs) == globs # {} /\ \E g \in globs : host \in g.hits
MainKeeps(host, scope, include_external, allow_globs, deny_globs) ==
    IF ~include_external /\ ~InScope(host, scope) THEN FALSE
    ELSE IF deny_globs # {} /\ GlobBlock(host, deny_globs) THEN FALSE
    ELSE IF /\ allow_globs # {}
            /\ ~GlobOk(host, allow_globs)
            /\ ~(\E g \in allow_globs : host \in g.hits)
            /\ ~InScope(host, scope)
         THEN FALSE
         ELSE TRUE

NoFCall == [fn |-> "none", in |-> EmptyMap, out |-> EmptyMap]
ScopeIn(host, include_external, allow, deny) ==
    [host |-> host, include_external |-> include_external,
     allow |-> allow, deny |-> deny]

CallIsInScope ==
    /\ fcall.fn = "none"
    /\ \E host \in ScopeHosts, allow \in SUBSET Globs, deny \in SUBSET Globs :
         fcall' = [fn |-> "is_in_scope",
                   in |-> ScopeIn(host, FALSE, allow, deny),
                   out |-> IsInScope(host, RootDomain, allow, deny)]
    /\ UNCHANGED exceptFn

CallSubdomainsRun ==
    /\ fcall.fn = "none"
    /\ \E host \in ScopeHosts, allow \in SUBSET Globs, deny \in SUBSET Globs,
          include_external \in BOOLEAN :
         fcall' = [fn |-> "subdomains.run",
                   in |-> ScopeIn(host, include_external, allow, deny),
                   out |-> SubdomainsRunKeeps(host, RootDomain,
                                              include_external, allow, deny)]
    /\ UNCHANGED exceptFn

CallMainScope ==
    /\ fcall.fn = "none"
    /\ \E host \in ScopeHosts, allow \in SUBSET Globs, deny \in SUBSET Globs,
          include_external \in BOOLEAN :
         fcall' = [fn |-> "__main__.main",
                   in |-> ScopeIn(host, include_external, allow, deny),
                   out |-> MainKeeps(host, RootDomain, include_external,
                                     allow, deny)]
    /\ UNCHANGED exceptFn

(***************************************************************************)
(* The three canonicalizers and the key lookups of ai_rules.apply_rules,   *)
(* on URLs held as the parts urlsplit / urlparse give for their text.  The *)
(* texts have no surrounding white space, no user info and no ";params",   *)
(* so strip() leaves them alone and urlparse splits them as urlsplit does. *)
(***************************************************************************)
CanonSchemes == {"http", "HTTP", "https", ""}
CanonHosts == {"h1", "H1"}
CanonPorts == {None, Some(80), Some(443), Some(8080)}
CanonPaths == {<<>>, <<"/">>, <<"/", "a">>, <<"/", "a", "/">>,
               <<"/", "a", "/", "/">>, <<"/", "A">>}
BarePaths == {<<"h1">>, <<"h1", "/", "a", "/">>}
CanonQueries == {"", "Q=1"}
CanonFragments == {"", "x"}
\* texts with a netloc ("http://h1:80/a?Q=1#x", "//h1/a") and bare hosts
\* without scheme and "//" ("h1/a/"), which urlsplit reads as a path
CanonInputs ==
    {Url(sc, h, po, pa, q, f) :
        sc \in CanonSchemes, h \in CanonHosts, po \in CanonPorts,
        pa \in CanonPaths, q \in CanonQueries, f \in CanonFragments}
    \cup {Url("", "", None, pa, q, f) :
            pa \in BarePaths, q \in CanonQueries, f \in CanonFragments}

\* urlsplit(urlunsplit(parts)): with a netloc-using scheme and an empty
\* netloc, urlunsplit writes "//" and puts "/" before a relative path
Resplit(u) ==
    IF /\ u.scheme \in {"http", "https"}
       /\ u.host = ""
       /\ IsNone(u.port)
       /\ u.path # <<>>
       /\ u.path[1] # "/"
    THEN [u EXCEPT !.path = <<"/">> \o u.path]
    ELSE u

\* the key text of enrich_urls.canon_url, read back
EnrichKey(u) == Resplit(CanonUrl(u))

\* url_cache.canon_url: lower-case scheme and netloc, "/" for an empty
\* path, no fragment; the port stays in the netloc
CacheCanonUrl(u) ==
    Url(Lower(u.scheme), Lower(u.host), u.port,
        IF u.path = <<>> THEN <<"/">> ELSE u.path, u.query, "")
CacheKey(u) == Resplit(CacheCanonUrl(u))

\* viewer._canon_url: lower-case scheme (http when empty) and netloc, a
\* default port dropped from the netloc, the path as it is, no fragment
ViewerCanonUrl(u) ==
    LET scheme == Lower(IF u.scheme = "" THEN "http" ELSE u.scheme)
        drop == /\ ~IsNone(u.port)
                /\ \/ scheme = "http" /\ Val(u.port) = 80
                   \/ scheme = "https" /\ Val(u.port) = 443 IN
    Url(scheme, Lower(u.host), IF drop THEN None ELSE u.port, u.path,
        u.query, "")
ViewerKey(u) == Resplit(ViewerCanonUrl(u))

\* ai_rules.apply_rules: enrich_map.get(url), .get(url.rstrip("/")),
\* .get(url + "/") on the raw text; with a query or a fragment the text
\* ends in it, and the slash goes there
RECURSIVE RStripPath(_)
RStripPath(path) ==
    IF path # <<>> /\ path[Len(path)] = "/"
    THEN RStripPath(SubSeq(path, 1, Len(path) - 1))
    ELSE path
LookupKeys(u) ==
    IF u.fragment # "" THEN {u}
    ELSE IF u.query # "" THEN {u}
    ELSE {u, [u EXCEPT !.path = RStripPath(u.path)],
          [u EXCEPT !.path = u.path \o <<"/">>]}

CanonIn(u) == [u |-> u]
CallCanonUrl ==
    /\ fcall.fn = "none"
    /\ \E u \in CanonInputs :
         fcall' = [fn |-> "enrich_urls.canon_url", in |-> CanonIn(u),
                   out |-> EnrichKey(u)]
    /\ UNCHANGED exceptFn

CallCacheCanonUrl ==
    /\ fcall.fn = "none"
    /\ \E u \in CanonInputs :
         fcall' = [fn |-> "url_cache.canon_url", in |-> CanonIn(u),
                   out |-> CacheKey(u)]
    /\ UNCHANGED exceptFn

CallViewerCanonUrl ==
    /\ fcall.fn = "none"
    /\ \E u \in CanonInputs :
         fcall' = [fn |-> "viewer._canon_url", in |-> CanonIn(u),
                   out |-> ViewerKey(u)]
    /\ UNCHANGED exceptFn

(***************************************************************************)
(* One rule against one URL in both engines: ai_apply.apply_rules with the *)
(* rule alone in the custom rule file, and ai_rules._matches_rule.         *)
(***************************************************************************)
CodeInRules == {RuleSpec("c1", "HIGH", "", PatAll, {200}),
                RuleSpec("c2", "LOW", "", PatU1, {401, 403}),
                RuleSpec("c3", "LOW", "", PatAll, {})}
MatchIn(rule, url, code) == [rule |-> rule, url |-> url, code |-> code]

CallApplyRulesOneRule ==
    /\ fcall.fn = "none"
    /\ \E rule \in CodeInRules, url \in ClsUrls, code \in RulesCodes,
          demote_if_no_code \in BOOLEAN :
         fcall' = [fn |-> "ai_apply.apply_rules",
                   in |-> MatchIn(rule, url, code),
                   out |-> ApplyRules(
                             [seed |-> <<>>, custom |-> <<rule>>,
                              ai |-> <<>>],
                             {"custom"}, <<[url |-> url, code |-> code]>>,
                             <<>>,
                             ApplyOptions(demote_if_no_code, FALSE, None))]
    /\ UNCHANGED exceptFn

CallMatchesRule ==
    /\ fcall.fn = "none"
    /\ \E rule \in CodeInRules, url \in ClsUrls, code \in RulesCodes,
          has_rec \in BOOLEAN :
         fcall' = [fn |-> "ai_rules._matches_rule",
                   in |-> MatchIn(rule, url,
                                  IF has_rec THEN code ELSE None),
                   out |-> MatchesRule(url,
                                       IF has_rec
                                       THEN Some([code |-> code]) ELSE None,
                                       RulesCompileRule(rule))]
    /\ UNCHANGED exceptFn

(***************************************************************************)
(* SpecMemo: enrich_urls._read_json_memo, save_enrich_map_atomic,          *)
(* get_url_enrich_cached and merge_into_url_enrich in one process.         *)
(* _ENRICH_CACHE maps a path to a dict object, not to a copy: the heap     *)
(* gives every dict object its content, and callers keep references to     *)
(* the objects they created, passed in or were handed.  A dict is          *)
(* represented by the set of its keys.  Every write of a file gives it a   *)
(* later modification time.                                                *)
(***************************************************************************)
MaxObjs == 3
MaxMtime == 3

MemoPaths == {"url_enrich", "docs_enrich"}
MemoKeys == {"k1", "k2"}
ObjIds == 1..MaxObjs
NoObj == 0
NoMtime == -1

NotCreated == [live |-> FALSE, keys |-> {}]
Dict(keys) == [live |-> TRUE, keys |-> keys]
MemoFile(st, keys, mtime) == [st |-> st, keys |-> keys, mtime |-> mtime]

MemoExists(p) == mfiles[p].st # "missing"
\* p.stat().st_mtime if p.exists() else 0.0
MemoStatMtime(p) == IF MemoExists(p) THEN mfiles[p].mtime ELSE 0
\* json.loads(p.read_text()), {} on any exception
MemoParsed(p) == IF mfiles[p].st = "ok" THEN mfiles[p].keys ELSE {}

HasFreeObj == \E o \in ObjIds : ~heap[o].live
FreshObj == CHOOSE o \in ObjIds :
              ~heap[o].live /\ \A o2 \in 1..(o - 1) : heap[o2].live
LaterMtime ==
    1 + Max(0, CHOOSE m \in {mfiles[p].mtime : p \in MemoPaths} :
                 \A p \in MemoPaths : mfiles[p].mtime <= m)

\* _read_json_memo(p): the cache is reloaded when the path is not cached or
\* its recorded modification time differs; the cached object is returned
MemoMustLoad(p) ==
    enrich_cache[p] = NoObj \/ enrich_mtime[p] # MemoStatMtime(p)

ReadJsonMemo(p) ==
    IF MemoMustLoad(p)
    THEN [heap |-> [heap EXCEPT ![FreshObj] = Dict(MemoParsed(p))],
          cache |-> [enrich_cache EXCEPT ![p] = FreshObj],
          mtime |-> [enrich_mtime EXCEPT ![p] = MemoStatMtime(p)],
          ret |-> FreshObj]
    ELSE [heap |-> heap, cache |-> enrich_cache, mtime |-> enrich_mtime,
          ret |-> enrich_cache[p]]

\* get_url_enrich_cached: the module file if it exists, else url_enrich.json
\* if it exists, else a new empty dict
GetUrlEnrichCached ==
    LET p == IF MemoExists("docs_enrich") THEN "docs_enrich"
             ELSE "url_enrich" IN
    /\ UNCHANGED exceptMemo
    /\ UNCHANGED mfiles
    /\ IF MemoExists(p)
       THEN /\ MemoMustLoad(p) => HasFreeObj
            /\ LET r == ReadJsonMemo(p) IN
               /\ heap' = r.heap
               /\ enrich_cache' = r.cache
               /\ enrich_mtime' = r.mtime
               /\ held' = held \cup {r.ret}
       ELSE /\ HasFreeObj
            /\ heap' = [heap EXCEPT ![FreshObj] = Dict({})]
            /\ held' = held \cup {FreshObj}
            /\ UNCHANGED <<enrich_cache, enrich_mtime>>

\* save_enrich_map_atomic(path, data): the text of data replaces the file;
\* _ENRICH_CACHE[path] = data, the caller's object
MemoSaveEnrichMapAtomic(p, o) ==
    /\ o \in held
    /\ LaterMtime <= MaxMtime
    /\ mfiles' = [mfiles EXCEPT ![p] = MemoFile("ok", heap[o].keys, LaterMtime)]
    /\ enrich_cache' = [enrich_cache EXCEPT ![p] = o]
    /\ enrich_mtime' = [enrich_mtime EXCEPT ![p] = LaterMtime]
    /\ UNCHANGED <<heap, held>>
    /\ UNCHANGED exceptMemo

\* merge_into_url_enrich(module_map): base is the cached object of
\* url_enrich.json (or a new dict), updated in place and saved
MemoMergeIntoUrlEnrich(o) ==
    LET p == "url_enrich" IN
    /\ o \in held
    /\ LaterMtime <= MaxMtime
    /\ (~MemoExists(p) \/ MemoMustLoad(p)) => HasFreeObj
    /\ LET r == IF MemoExists(p) THEN ReadJsonMemo(p)
                ELSE [heap |-> [heap EXCEPT ![FreshObj] = Dict({})],
                      cache |-> enrich_cache, mtime |-> enrich_mtime,
                      ret |-> FreshObj]
           base == r.ret
           merged == r.heap[base].keys \cup r.heap[o].keys IN
       /\ heap' = [r.heap EXCEPT ![base] = Dict(merged)]
       /\ mfiles' = [mfiles EXCEPT ![p] = MemoFile("ok", merged, LaterMtime)]
       /\ enrich_cache' = [r.cache EXCEPT ![p] = base]
       /\ enrich_mtime' = [r.mtime EXCEPT ![p] = LaterMtime]
    /\ UNCHANGED held
    /\ UNCHANGED exceptMemo

\* a caller builds a dict of its own (module_map = {})
CallerNewDict ==
    /\ HasFreeObj
    /\ \E keys \in SUBSET MemoKeys :
         heap' = [heap EXCEPT ![FreshObj] = Dict(keys)]
    /\ held' = held \cup {FreshObj}
    /\ UNCHANGED <<enrich_cache, enrich_mtime, mfiles>>
    /\ UNCHANGED exceptMemo

\* a caller stores a key in a dict it holds (module_map[key] = rec)
CallerSetsKey(o, k) ==
    /\ o \in held
    /\ k \notin heap[o].keys
    /\ heap' = [heap EXCEPT ![o] = Dict(heap[o].keys \cup {k})]
    /\ UNCHANGED <<enrich_cache, enrich_mtime, mfiles, held>>
    /\ UNCHANGED exceptMemo

\* routers/targets/utils.save_url_enrich in the same process: write_text on
\* url_enrich.json, which the memo is not told about
SaveUrlEnrich ==
    /\ LaterMtime <= MaxMtime
    /\ \E keys \in SUBSET MemoKeys :
         mfiles' = [mfiles EXCEPT
                      !["url_enrich"] = MemoFile("ok", keys, LaterMtime)]
    /\ UNCHANGED <<heap, enrich_cache, enrich_mtime, held>>
    /\ UNCHANGED exceptMemo

MemoInit ==
    /\ heap = [o \in ObjIds |-> NotCreated]
    /\ enrich_cache = [p \in MemoPaths |-> NoObj]
    /\ enrich_mtime = [p \in MemoPaths |-> NoMtime]
    /\ held = {}
    /\ mfiles \in [MemoPaths -> {MemoFile("missing", {}, 0),
                                 MemoFile("corrupt", {}, 1),
                                 MemoFile("ok", {}, 1),
                                 MemoFile("ok", {"k1"}, 1)}]

(***************************************************************************)
(* Initial values of the variable groups a specification does not use.     *)
(***************************************************************************)
ProbeIdle == call = NoCall
StoreIdle ==
    /\ files = [p \in SnapPaths |-> Missing]
    /\ logs = [p \in LogPaths |-> <<>>]
    /\ now = 1
    /\ batches = 0
    /\ raised = "none"
BatchIdle ==
    /\ kind = "none"
    /\ concurrency = 0
    /\ per_host = 0
    /\ tpc = EmptyMap
    /\ tout = EmptyMap
    /\ sem_all = 0
    /\ sem_host = EmptyMap
    /\ rpc = "idle"
    /\ module_map = EmptyMap
    /\ ndjson = <<>>
    /\ persisted = Missing
WriteIdle ==
    /\ disk = EmptyMap
    /\ tmpfile = EmptyMap
    /\ wpc = EmptyMap
    /\ wdata = EmptyMap
    /\ observed = EmptyMap

OrderIdle ==
    /\ okind = "none"
    /\ work = <<>>
    /\ wout = <<>>
    /\ undrained = {}
    /\ omap = EmptyMap
    /\ osnap = Missing

LockIdle ==
    /\ running_tasks = EmptyMap
    /\ task_pc = EmptyMap
    /\ task_scope = EmptyMap
    /\ lock_file = EmptyMap
    /\ last_start = EmptyMap
RulesIdle == rcall = NoRCall /\ rerun = NoRerun
GenIdle == gcall = NoGCall /\ gen_file = None
FnIdle == fcall = NoFCall
MemoIdle ==
    /\ heap = [o \in ObjIds |-> NotCreated]
    /\ enrich_cache = [p \in MemoPaths |-> NoObj]
    /\ enrich_mtime = [p \in MemoPaths |-> NoMtime]
    /\ held = {}
    /\ mfiles = [p \in MemoPaths |-> MemoFile("missing", {}, 0)]
Idle5 == OrderIdle /\ LockIdle /\ RulesIdle /\ GenIdle /\ FnIdle /\ MemoIdle

InitProbe == ProbeIdle /\ StoreIdle /\ BatchIdle /\ WriteIdle /\ Idle5
NextProbe ==
    \/ CallFetchUrl
    \/ CallFetchPath
    \/ CallProbeHost
    \/ CallSvcProbeHost
SpecProbe == InitProbe /\ [][NextProbe]_vars

InitStore == ProbeIdle /\ StoreInit /\ BatchIdle /\ WriteIdle /\ Idle5
NextStore ==
    \/ Tick
    \/ ProbeUrlsBatch
    \/ ProbePathsBatch
    \/ ProbeSubdomainsBatch
    \/ RunProbeBatch
SpecStore == InitStore /\ [][NextStore]_vars

InitBatch == ProbeIdle /\ StoreIdle /\ BatchInit /\ WriteIdle /\ Idle5
NextBatch ==
    \/ \E t \in Tasks : AcquireAll(t)
    \/ \E t \in Tasks : AcquireHost(t)
    \/ \E t \in Tasks : CompleteToRunner(t)
    \/ \E t \in Tasks : Drain(t)
    \/ \E t \in Tasks : CompleteSvc(t)
    \/ \E t \in Tasks : CompletePath(t)
    \/ Abort
    \/ Commit
SpecBatch == InitBatch /\ [][NextBatch]_vars

InitWrite == ProbeIdle /\ StoreIdle /\ BatchIdle /\ WriteInit /\ Idle5
NextWrite ==
    \/ \E w \in Writers : BeginWrite(w)
    \/ \E w \in Writers : OpenTruncate(w)
    \/ \E w \in Writers : WriteText(w)
    \/ \E w \in Writers : Replace(w)
    \/ \E p \in WritePaths : ReadSnapshot(p)
SpecWrite == InitWrite /\ [][NextWrite]_vars

Idle4 == ProbeIdle /\ StoreIdle /\ BatchIdle /\ WriteIdle
InitOrder ==
    Idle4 /\ OrderInit /\ LockIdle /\ RulesIdle
    /\ GenIdle /\ FnIdle /\ MemoIdle
NextOrder ==
    \/ \E i \in 1..MaxWork : RecordCompleted(i)
    \/ SaveModuleMap
SpecOrder == InitOrder /\ [][NextOrder]_vars

InitLock ==
    Idle4 /\ OrderIdle /\ LockInit /\ RulesIdle
    /\ GenIdle /\ FnIdle /\ MemoIdle
NextLock ==
    \/ \E scope \in Scopes : StartProbe(scope)
    \/ \E t \in TaskIds : RunProbeBegin(t)
    \/ \E t \in TaskIds : RunProbeBeginRaises(t)
    \/ \E t \in TaskIds : RunProbeFinish(t)
SpecLock == InitLock /\ [][NextLock]_vars

\* the event loop runs every task it holds: a created task gets its first
\* step, and the gather of a task whose workers all return completes
FairLock ==
    \A t \in TaskIds :
      /\ WF_vars(RunProbeBegin(t) \/ RunProbeBeginRaises(t))
      /\ WF_vars(RunProbeFinish(t))
SpecLockFair == InitLock /\ [][NextLock]_vars /\ FairLock

InitRules ==
    Idle4 /\ OrderIdle /\ LockIdle /\ RulesInit
    /\ GenIdle /\ FnIdle /\ MemoIdle
NextRules ==
    \/ CallApplyRules
    \/ CallRulesApplyRules
    \/ CallPreviewRules
    \/ CallMainClassify
    \/ RunAgain
SpecRules == InitRules /\ [][NextRules]_vars

InitGen ==
    Idle4 /\ OrderIdle /\ LockIdle /\ RulesIdle
    /\ GenInit /\ FnIdle /\ MemoIdle
NextGen ==
    \/ GenerateRulesFromSamples
    \/ GenerateRulesNoCorpus
SpecGen == InitGen /\ [][NextGen]_vars

InitFn ==
    Idle4 /\ OrderIdle /\ LockIdle /\ RulesIdle
    /\ GenIdle /\ FnIdle /\ MemoIdle
NextFn ==
    \/ CallIsInScope
    \/ CallSubdomainsRun
    \/ CallMainScope
    \/ CallCanonUrl
    \/ CallCacheCanonUrl
    \/ CallViewerCanonUrl
    \/ CallApplyRulesOneRule
    \/ CallMatchesRule
SpecFn == InitFn /\ [][NextFn]_vars

InitMemo ==
    Idle4 /\ OrderIdle /\ LockIdle /\ RulesIdle /\ GenIdle /\ FnIdle /\ MemoInit
NextMemo ==
    \/ GetUrlEnrichCached
    \/ \E p \in MemoPaths, o \in ObjIds : MemoSaveEnrichMapAtomic(p, o)
    \/ \E o \in ObjIds : MemoMergeIntoUrlEnrich(o)
    \/ CallerNewDict
    \/ \E o \in ObjIds, k \in MemoKeys : CallerSetsKey(o, k)
    \/ SaveUrlEnrich
SpecMemo == InitMemo /\ [][NextMemo]_vars

(***************************************************************************)
(* Properties.                                                             *)
(***************************************************************************)
UrlSnapPaths == {"url_enrich", "docs_enrich", "sens_enrich",
                 "probe_paths_enrich"}
HasKey(f, k) == f.st = "ok" /\ k \in DOMAIN f.map
HasField(f, k, fld) == HasKey(f, k) /\ fld \in DOMAIN f.map[k]
IsPrefix(a, b) == Len(a) <= Len(b) /\ SubSeq(b, 1, Len(a)) = a
HasCode(c) == c.fn # "none" /\ ~c.raised /\ ~IsNone(c.rec.code)

\* C1: across any sequence of probe batches, a key's first_seen in a module
\* snapshot and in the global url_enrich snapshot keeps the value of the
\* first write.
C1_FirstSeenKept ==
    [][\A p \in UrlSnapPaths, k \in Keys :
         (HasField(files[p], k, "first_seen")
            /\ HasField(files'[p], k, "first_seen"))
         => files'[p].map[k].first_seen = files[p].map[k].first_seen]_vars

\* C2: a merge into the global snapshot keeps every key, never shrinks a
\* key's sources set and never drops a field the record had.
C2_SourcesGrowFieldsStay ==
    [][\A k \in Keys :
         HasKey(files["url_enrich"], k)
         => /\ HasKey(files'["url_enrich"], k)
            /\ DOMAIN files["url_enrich"].map[k]
                 \subseteq DOMAIN files'["url_enrich"].map[k]
            /\ ("sources" \in DOMAIN files["url_enrich"].map[k]
                  => files["url_enrich"].map[k].sources
                       \subseteq files'["url_enrich"].map[k].sources)]_vars

\* C3: in a probe_urls or probe_paths batch no error leaves the batch, a
\* target whose request raised is recorded with alive = false, code = null
\* and a non-empty error string, and after the commit every target is in
\* the persisted snapshot and in the audit log.
C3_FailuresContained ==
    /\ rpc \notin {"raising", "raised"}
    /\ \A t \in Tasks :
         (kind \in {"probe_urls", "probe_paths"} /\ tpc[t] = "recorded"
            /\ tout[t].t = "exc")
         => /\ module_map[TaskKey[t]].alive = FALSE
            /\ IsNone(module_map[TaskKey[t]].code)
            /\ ~IsNone(module_map[TaskKey[t]].error)
            /\ Val(module_map[TaskKey[t]].error) # ""
    /\ (kind \in {"probe_urls", "probe_paths"} /\ rpc = "committed")
         => \A t \in Tasks :
              /\ HasKey(persisted, TaskKey[t])
              /\ \E i \in 1..Len(ndjson) : ndjson[i].url = TaskKey[t]

\* C4 (as claimed): every record fetch_url or fetch_path builds from a
\* response has alive = true exactly when the status code is below 500.
C4_AliveBelow500 ==
    (call.fn \in {"fetch_url", "fetch_path"} /\ HasCode(call))
      => (call.rec.alive <=> Val(call.rec.code) < 500)

\* C4 (amended): a record fetch_url builds from a response has alive = true
\* exactly when the code is below 500; a record fetch_path builds from a
\* response has alive = true for every code.
C4_AliveByProber ==
    /\ (call.fn = "fetch_url" /\ HasCode(call))
         => (call.rec.alive <=> Val(call.rec.code) < 500)
    /\ (call.fn = "fetch_path" /\ HasCode(call)) => call.rec.alive = TRUE

C4_Witness ==
    /\ call.fn = "fetch_path"
    /\ HasCode(call)
    /\ Val(call.rec.code) >= 500
    /\ call.rec.alive

\* C5: probe_host and _probe_host record alive = true exactly when a status
\* code was obtained, 5xx included.
C5_AliveAnyCode ==
    call.fn \in {"probe_host", "_probe_host"}
      => (call.rec.alive <=> ~IsNone(call.rec.code))

\* C6: at every moment of a batch the number of targets with a request in
\* flight is at most the configured global concurrency.
C6_GlobalLimit ==
    kind \in Kinds => Cardinality(InFlight) <= concurrency

C6_Witness ==
    /\ kind \in Kinds
    /\ Cardinality(InFlight) = concurrency
    /\ sem_all = 0
    /\ \E t \in Tasks : tpc[t] = "created"

\* C7: in probe_paths at most per_host of the global slots are held by
\* tasks of one host.
C7_PerHostShare ==
    kind = "probe_paths"
      => \A h \in DOMAIN sem_host :
           Cardinality({t \in Holders({"wait_host", "inflight"}) :
                          WorkHost[t] = h}) <= per_host

\* C8: whatever a reader of a snapshot file reads is a complete content of
\* the file, for every writer.
C8_ReaderSeesComplete ==
    \A p \in DOMAIN observed : observed[p].st # "partial"

\* C9: every audit log only grows: what it held stays a prefix of what it
\* holds.
C9_AuditAppendOnly ==
    [][\A p \in LogPaths : IsPrefix(logs[p], logs'[p])]_vars

\* C10: no read of a snapshot, the probers' reads of the prior snapshot
\* included, raises on a missing or corrupt file.
C10_ReadsNeverRaise == raised # "JSONDecodeError"

\* the module map when the results are recorded in submission order
RECURSIVE InSubmissionOrder(_, _)
InSubmissionOrder(i, mm) ==
    IF i > Len(work) THEN mm
    ELSE InSubmissionOrder(i + 1,
                           RecordResult(okind, mm, work[i], wout[i], now))

\* C11: the module snapshot saved at the end of a batch is the same for
\* every completion order of the batch's tasks, also when two raw URLs of
\* the input share a canonical key: it equals the snapshot of the run that
\* completes in submission order.
C11_OrderIndependent ==
    osnap.st = "ok" => osnap.map = InSubmissionOrder(1, EmptyMap)

IsApply == rcall.fn = "ai_apply.apply_rules" /\ rcall.out.ok
IsRules == rcall.fn = "ai_rules.apply_rules" /\ rcall.out.ok
IsPreview == rcall.fn = "ai_rules.preview_rules" /\ rcall.out.ok
IsMain == rcall.fn = "__main__.main"

\* the rule specs of the loaded documents in load order, as each loader
\* reads them
LoadedDefs ==
    IF rcall.fn = "ai_apply.apply_rules"
    THEN NormalizeRules(rcall.in.docs.seed)
           \o NormalizeRules(rcall.in.docs.custom)
           \o NormalizeRules(rcall.in.docs.ai)
    ELSE SelectSeq(rcall.in.seed \o rcall.in.custom, LAMBDA r : r.id # "")

LastDefinition(defs, id) ==
    defs[CHOOSE i \in 1..Len(defs) :
           /\ defs[i].id = id
           /\ \A j \in 1..Len(defs) : defs[j].id = id => j <= i]

\* C13: in the rule set a classification run evaluates each id occurs at
\* most once, and a rule of that set has the label, reason and code_in of
\* the last loaded definition of its id.
C13_RuleIdsUnique ==
    (IsApply \/ IsRules \/ IsPreview)
      => LET rules == rcall.out.rules IN
         /\ \A i, j \in 1..Len(rules) : i # j => rules[i].id # rules[j].id
         /\ \A i \in 1..Len(rules) :
              LET d == LastDefinition(LoadedDefs, rules[i].id) IN
              /\ Upper(rules[i].label) = Upper(d.label)
              /\ rules[i].reason = d.reason
              /\ rules[i].code_in = d.code_in

\* C14: a rule whose pattern does not compile is dropped alone: no loader
\* raises, and every rule of the documents whose pattern compiles is in the
\* loaded rule set.
C14_BadPatternDropped ==
    rcall.fn \in {"ai_apply.apply_rules", "ai_rules.apply_rules",
                  "ai_rules.preview_rules"}
      => /\ ~rcall.out.raised
         /\ rcall.out.ok
              => /\ \A i \in 1..Len(rcall.out.rules) :
                      rcall.out.rules[i].regex.ok
                 /\ \A k \in 1..Len(LoadedDefs) :
                      LoadedDefs[k].pattern.ok
                        => \E i \in 1..Len(rcall.out.rules) :
                             rcall.out.rules[i].id = LoadedDefs[k].id

\* the rules of the evaluated set that match a row's URL and code
RowMatches(row) ==
    {i \in 1..Len(rcall.out.rules) :
        /\ row.url \in rcall.out.rules[i].regex.hits
        /\ ~(/\ rcall.out.rules[i].code_in # {}
             /\ ~IsNone(row.code)
             /\ Val(row.code) \notin rcall.out.rules[i].code_in)}
\* the rules a row names as its winner
RowKept(row) ==
    {i \in RowMatches(row) :
        /\ rcall.out.rules[i].id = row.rule_id
        /\ rcall.out.rules[i].source = row.source
        /\ rcall.out.rules[i].reason = row.reason}
NominalTuple(rule) == <<SeverityWeight(rule.label), SourcePrio(rule.source)>>
TupleLess(a, b) == a[1] < b[1] \/ (a[1] = b[1] /\ a[2] < b[2])

\* C15: the rule apply_rules keeps for a URL is a matching rule whose tuple
\* (severity weight of the nominal label, source priority) is above the
\* tuple of every other matching rule, so that no iteration order keeps
\* another rule.
C15_BestByNominalTuple ==
    IsApply
      => \A r \in 1..Len(rcall.out.results) :
           LET row == rcall.out.results[r] IN
           /\ RowKept(row) # {}
           /\ \A i \in RowKept(row), j \in RowMatches(row) \ RowKept(row) :
                TupleLess(NominalTuple(rcall.out.rules[j]),
                          NominalTuple(rcall.out.rules[i]))

OneTierBelow(label) ==
    CASE label = "HIGH" -> "MEDIUM"
      [] label = "MEDIUM" -> "LOW"
      [] label = "LOW" -> "INFO"
      [] label = "INFO" -> "INFO"

\* C16: with demote_if_no_code a URL without a code gets the label one tier
\* below the nominal label of the rule kept for it, and a URL with a code
\* gets that rule's nominal label.
C16_DemoteOneTier ==
    (IsApply /\ rcall.in.options.demote_if_no_code)
      => \A r \in 1..Len(rcall.out.results) :
           LET row == rcall.out.results[r] IN
           /\ RowKept(row) # {}
           /\ \A i \in RowKept(row) :
                row.final_label =
                  IF IsNone(row.code)
                  THEN OneTierBelow(rcall.out.rules[i].label)
                  ELSE rcall.out.rules[i].label

C16_Witness ==
    /\ IsApply
    /\ rcall.in.options.demote_if_no_code
    /\ \E r \in 1..Len(rcall.out.results) :
         /\ IsNone(rcall.out.results[r].code)
         /\ rcall.out.results[r].final_label = "MEDIUM"
         /\ \E i \in RowKept(rcall.out.results[r]) :
              rcall.out.rules[i].label = "HIGH"
    /\ \E r \in 1..Len(rcall.out.results) :
         /\ ~IsNone(rcall.out.results[r].code)
         /\ rcall.out.results[r].final_label \in {"HIGH", "MEDIUM", "LOW"}

\* the label before the status code policy: apply_rules coerces a label
\* outside LABELS to INFO, preview_rules does not
RowNominal(row) ==
    IF rcall.fn = "ai_rules.apply_rules" /\ ~InLabels(row.label)
    THEN "INFO" ELSE row.label

\* C17: with the blocked-code flag a code of 401 or 403, and with the 404
\* flag a code of 404, give the final label INFO; with the flag off, another
\* code or no code, the final label is the nominal one.
C17_DemoteByCode ==
    (IsRules \/ IsPreview)
      => \A r \in 1..Len(rcall.out.results) :
           LET row == rcall.out.results[r]
               forced ==
                 /\ ~IsNone(row.code)
                 /\ \/ rcall.in.demote_blocked /\ Val(row.code) \in {401, 403}
                    \/ rcall.in.demote_404 /\ Val(row.code) = 404 IN
           row.final_label = IF forced THEN "INFO" ELSE RowNominal(row)

C17_Witness ==
    /\ IsRules
    /\ rcall.in.demote_blocked
    /\ \E r \in 1..Len(rcall.out.results) :
         /\ rcall.out.results[r].code = Some(401)
         /\ rcall.out.results[r].label = "HIGH"
         /\ rcall.out.results[r].final_label = "INFO"

\* C18: after a classification run every URL of the corpus is in exactly
\* one bucket (the unclassified bucket for a URL no rule matches), so the
\* bucket counts sum to the corpus size: in ai_apply and ai_rules a URL
\* has at most one row and the counts count the rows; in __main__ every
\* input URL is in exactly one category set.
C18_OneBucketPerUrl ==
    /\ (IsApply \/ IsRules)
         => /\ SumCounts(rcall.out.counts) = Len(rcall.out.results)
            /\ rcall.out.total_classified = Len(rcall.out.results)
            /\ Len(rcall.out.results) <= rcall.out.total_source
    /\ IsApply
         => \A i, j \in 1..Len(rcall.out.results) :
              i # j => rcall.out.results[i].url # rcall.out.results[j].url
    /\ IsMain
         => /\ \A i \in 1..Len(rcall.in.lines) :
                 Cardinality({c \in DOMAIN rcall.out.buffers :
                                rcall.in.lines[i] \in rcall.out.buffers[c]})
                   = 1
            /\ SumCounts(rcall.out.counts)
                 = Cardinality(Range(rcall.in.lines))

\* C19 (as claimed): the same classification call made twice on the same
\* corpus, rules, enrichment snapshot and options gives the same counts,
\* the preview run included.
C19_SameCounts ==
    rerun.done => rerun.counts = rcall.out.counts

\* C19 (amended): the full runs give the same counts when made twice; the
\* preview run gives the same counts when its limit is at least the number
\* of URLs of the corpus.
C19_SameCountsFullRun ==
    (rerun.done
       /\ (rcall.fn = "ai_rules.preview_rules"
             => rcall.in.limit >= Len(rcall.in.urls)))
      => rerun.counts = rcall.out.counts

C19_Witness ==
    /\ rerun.done
    /\ IsPreview
    /\ Len(rcall.in.urls) = 2
    /\ rcall.in.urls[1] # rcall.in.urls[2]
    /\ rcall.in.limit = 2
    /\ rcall.out.counts["HIGH"] = 1
    /\ rcall.out.counts["LOW"] = 1
    /\ rerun.counts = rcall.out.counts

\* C20: for a non-empty corpus generate_rules_from_samples ends reported ok
\* with at least one valid rule written to the generated-rules document,
\* and when no attempt gave a valid rule the rules are the fallback
\* generator's and the result is marked fallback.
C20_AlwaysSomeRule ==
    (gcall.fn = "generate_rules_from_samples" /\ gcall.in.urls # <<>>)
      => /\ gcall.out.ok
         /\ gcall.out.written
         /\ gcall.out.rules_count >= 1
         /\ ~IsNone(gen_file)
         /\ Len(Val(gen_file)) = gcall.out.rules_count
         /\ \A i \in 1..Len(Val(gen_file)) :
              /\ Val(gen_file)[i].pattern.ok
              /\ Val(gen_file)[i].pattern.src # ""
         /\ (\A a \in 1..Len(gcall.in.replies) :
               \/ gcall.in.replies[a].raises
               \/ ParseRules(gcall.in.replies[a].data) = <<>>)
              => gcall.out.fallback

ScopeCalls == {"is_in_scope", "subdomains.run", "__main__.main"}
\* the deny list matches the host, by the matcher of the called function
DenyMatches ==
    IF fcall.fn = "__main__.main"
    THEN \E g \in fcall.in.deny : fcall.in.host \in g.hits
    ELSE \E g \in fcall.in.deny : fcall.in.host \in g.lhits

\* C21: a host that matches a pattern of the deny list is excluded by the
\* scope filter, whatever the allow list, its place under the root domain
\* and include_external are.
C21_DenyExcludes ==
    (fcall.fn \in ScopeCalls /\ DenyMatches) => ~fcall.out

CanonCalls == {"enrich_urls.canon_url", "url_cache.canon_url",
               "viewer._canon_url"}
\* the key a canonicalizer gives for the parts u
KeyBy(fn, u) ==
    CASE fn = "enrich_urls.canon_url" -> EnrichKey(u)
      [] fn = "url_cache.canon_url" -> CacheKey(u)
      [] fn = "viewer._canon_url" -> ViewerKey(u)

\* C22: canon_url applied to its own result gives that result again, in
\* enrich_urls and in url_cache.
C22_Idempotent ==
    fcall.fn \in {"enrich_urls.canon_url", "url_cache.canon_url"}
      => KeyBy(fcall.fn, fcall.out) = fcall.out

CaseNames == {"http", "HTTP", "https", "h1", "H1"}
CaseVariants(name) ==
    {name} \cup {t \in CaseNames : Lower(t) = Lower(name)}
DefaultPorts(scheme) ==
    CASE Lower(scheme) = "http" -> {None, Some(80)}
      [] Lower(scheme) = "https" -> {None, Some(443)}
      [] OTHER -> {None}
\* the URLs that differ from u by an explicit default port, the fragment
\* or the case of scheme and host only
SameButPortFragmentCase(u) ==
    {Url(sc, h, po, u.path, u.query, f) :
        sc \in CaseVariants(u.scheme), h \in CaseVariants(u.host),
        po \in IF u.port \in DefaultPorts(u.scheme)
               THEN DefaultPorts(u.scheme) ELSE {u.port},
        f \in CanonFragments}

\* C23: URLs that differ only by an explicit default port, by the fragment
\* or by the case of scheme and host get the same key, and the key keeps
\* the query and the case of the path.
C23_SameKey ==
    fcall.fn \in CanonCalls
      => /\ \A v \in SameButPortFragmentCase(fcall.in.u) :
              KeyBy(fcall.fn, v) = fcall.out
         /\ fcall.out.query = fcall.in.u.query
         /\ fcall.out.fragment = ""
         /\ \A i \in 1..Len(fcall.out.path) :
              fcall.out.path[i] = "/"
                \/ \E j \in 1..Len(fcall.in.u.path) :
                     fcall.in.u.path[j] = fcall.out.path[i]

\* C24: the key under which a prober stores the record of a URL is the
\* key of url_cache.canon_url and of viewer._canon_url for that URL, and
\* is among the keys ai_rules.apply_rules looks up.
C24_SameKeyEverywhere ==
    fcall.fn = "enrich_urls.canon_url"
      => /\ CacheKey(fcall.in.u) = fcall.out
         /\ ViewerKey(fcall.in.u) = fcall.out
         /\ fcall.out \in LookupKeys(fcall.in.u)

\* whether the one rule of the call was taken as matching the URL
RuleMatched ==
    IF fcall.fn = "ai_apply.apply_rules"
    THEN fcall.out.ok /\ Len(fcall.out.results) > 0
    ELSE fcall.out

\* C25: a rule with a non-empty code_in does not match a URL whose record
\* holds no code or a code outside code_in, in ai_apply.apply_rules and in
\* ai_rules._matches_rule.
C25_CodeInRequiresCode ==
    (/\ fcall.fn \in {"ai_apply.apply_rules", "ai_rules._matches_rule"}
     /\ fcall.in.rule.code_in # {}
     /\ \/ IsNone(fcall.in.code)
        \/ Val(fcall.in.code) \notin fcall.in.rule.code_in)
      => ~RuleMatched

(***************************************************************************)
(* Order of the requests of probe_host.                                    *)
(***************************************************************************)
PreferredScheme == IF call.in.prefer_https THEN "https" ELSE "http"
AlternateScheme == IF call.in.prefer_https THEN "http" ELSE "https"
ReqFailed(q) == call.in.net[q].t # "resp"

\* C26: probe_host contacts the preferred scheme first and the alternate
\* scheme only after every request to the preferred scheme gave no code;
\* within a scheme the first request is a HEAD, a GET follows only a failed
\* HEAD of that scheme with if_head_then_get set; after a scheme gave a code
\* the other scheme is not contacted.
C26_RequestOrder ==
    call.fn = "probe_host" =>
      LET reqs == call.reqs
          n == Len(reqs) IN
        /\ n >= 1
        /\ reqs[1] = <<PreferredScheme, "HEAD">>
        /\ \A i \in 1..n :
             /\ reqs[i][2] = "HEAD" =>
                  \A j \in 1..(i - 1) : reqs[j][1] # reqs[i][1]
             /\ reqs[i][2] = "GET" =>
                  /\ call.in.if_head_then_get
                  /\ \E j \in 1..(i - 1) :
                       /\ reqs[j] = <<reqs[i][1], "HEAD">>
                       /\ ReqFailed(reqs[j])
             /\ reqs[i][1] = AlternateScheme =>
                  \A j \in 1..n :
                    reqs[j][1] = PreferredScheme =>
                      j < i /\ ReqFailed(reqs[j])
             /\ (reqs[i][1] = PreferredScheme /\ ~ReqFailed(reqs[i])) =>
                  \A j \in 1..n : reqs[j][1] = PreferredScheme

C26_Witness ==
    /\ call.fn = "probe_host"
    /\ Len(call.reqs) = 5
    /\ call.reqs[2] = <<PreferredScheme, "GET">>
    /\ call.reqs[3] = <<AlternateScheme, "HEAD">>
    /\ ~ReqFailed(call.reqs[4])


(***************************************************************************)
(* Attempts per target under a retries setting.                            *)
(***************************************************************************)
AttemptFailed(o) == o.t # "resp"

AttemptsWithin(c) ==
    LET r == c.in.retries
        outs == c.in.outs
        n == Len(c.reqs) IN
    /\ n <= r + 1
    /\ (\A i \in 1..(r + 1) : AttemptFailed(outs[i])) => n = r + 1
    /\ \A i \in 1..(r + 1) :
         (~AttemptFailed(outs[i]) /\ \A j \in 1..(i - 1) : AttemptFailed(outs[j]))
           => n = i

\* C27: with retries = r >= 0 the probe of one target makes at most r + 1
\* attempts, exactly r + 1 when every attempt fails, and none after the
\* first attempt that got a response; for probe_urls and for probe_paths.
C27_BoundedAttempts ==
    call.fn \in {"fetch_url", "fetch_path"} => AttemptsWithin(call)


(***************************************************************************)
(* The snapshot is written at the commit, the audit lines before it.       *)
(***************************************************************************)
AllRecorded == \A t \in Tasks : tpc[t] = "recorded"
Interrupted == rpc \in {"raising", "raised"}

\* C28: the snapshot changes only in the commit step, taken when every task
\* of the batch has been recorded; every task's audit line is in the log
\* before that step; a batch interrupted before the commit never writes the
\* snapshot afterwards.
C28_SnapshotOnlyAtCommit ==
    /\ [][/\ persisted' # persisted =>
               /\ AllRecorded
               /\ Len(ndjson) = Cardinality(Tasks)
               /\ ndjson' = ndjson
               /\ rpc = "running" /\ rpc' = "committed"
          /\ Len(ndjson') > Len(ndjson) => rpc # "committed"
          /\ Interrupted => persisted' = persisted]_vars
    /\ [](rpc = "committed" => AllRecorded /\ Len(ndjson) = Cardinality(Tasks))

C28_Witness ==
    /\ rpc = "committed"
    /\ kind \in {"probe_urls", "probe_subdomains", "probe_paths"}
    /\ persisted # Missing
    /\ Len(ndjson) = Cardinality(Tasks)


(***************************************************************************)
(* The read-through cache against the files.                               *)
(***************************************************************************)
\* C29: a cache entry whose recorded modification time is the file's holds
\* the parsed content of the file, whatever callers did with the dicts they
\* passed in or were handed.
C29_CacheEqualsFile ==
    \A p \in MemoPaths :
      ~MemoMustLoad(p) => heap[enrich_cache[p]].keys = MemoParsed(p)


(***************************************************************************)
(* Release of the scope by a probe run.                                    *)
(***************************************************************************)
RunHoldsLock(t) ==
    /\ task_pc[t] \in {"gathering", "raised"}
    /\ lock_file[task_scope[t]]

ScopeReleased(t) ==
    /\ task_scope[t] \in Scopes
    /\ ~lock_file[task_scope[t]]
    /\ running_tasks[task_scope[t]] # t

\* C30: a run that has written the lock file of its scope eventually leaves
\* the scope released (no lock file, no registry entry of the run), whether
\* it finishes or fails after the lock was written.
C30_EventuallyReleased ==
    \A t \in TaskIds : RunHoldsLock(t) ~> ScopeReleased(t)

====
